---- MODULE Spec2Model ----
(***************************************************************************)
(* Model of testnodegen/genchar.py (Python 2): DoJob(f) builds a fixed     *)
(* six-entry style table, appends one {char, color} entry per code point   *)
(* of range(0x4e00, 0x9fff + 1) with color = random.randint(0, 5), and     *)
(* writes json.dumps of the whole document to the sink f in one call.      *)
(*                                                                         *)
(* Every variable is a function of the run (process) identifier, so that   *)
(* one run (Spec, SpecLive) and two runs side by side (SpecPair) share the *)
(* same definitions.                                                       *)
(*   Spec     : one run, DoJob taken piecewise: the first and the last     *)
(*              iterations of the loop one per step, those between as one  *)
(*              step (and DoJob also as a single step).                    *)
(*   SpecLive : Spec, with the interpreter always running on; whether the  *)
(*              sink ever answers a write is left to the sink.             *)
(*   SpecPair : two runs side by side, DoJob a single step of both.        *)
(*                                                                         *)
(* Text is modelled as sequences of character codes: a unicode string is   *)
(* the sequence of its code units, JSON string text the sequence of ASCII  *)
(* codes json.dumps emits for it.  The palette's str literals are          *)
(* printable ASCII without quote or backslash; they are kept as strings    *)
(* and json.dumps emits them unchanged between quotes.  The written text   *)
(* is kept as the structure of its members: the text of every string and   *)
(* number is spelled out, the punctuation of objects and lists is not.     *)
(* The definitions marked `fault variant` are the program with one slip in *)
(* it, on which a property below is meant to fail.                         *)
(***************************************************************************)
EXTENDS Integers, Sequences, FiniteSets, TLC

(***************************************************************************)
(* pc          where the run is: "start" (main is about to call DoJob),    *)
(*             "loop", "writing" (inside f.write), "returned" / "raised"   *)
(*             (DoJob is over), "flushing" (the interpreter, going down,   *)
(*             is inside the flush of sys.stdout), "exited"                *)
(* style_table, entries   the two lists of DoJob (o refers to both)        *)
(* iter        the next value the range iterator yields                    *)
(* seed        what the random source of the run was seeded with           *)
(* draws       how many values have been drawn from the random source      *)
(* sink        the calls of f.write so far, each with its text and outcome *)
(* delivered   how much of the text has reached the sink: "none",          *)
(*             "buffered" (f.write returned, the tail of the text is still *)
(*             in the file object's buffer), "whole", "truncated"          *)
(* exc         the exception being propagated ("none": none)               *)
(* status      the exit status of the process (-1: still running)          *)
(***************************************************************************)
VARIABLES pc, style_table, entries, iter, seed, draws, sink, delivered, exc, status

vars == <<pc, style_table, entries, iter, seed, draws, sink, delivered, exc, status>>

(***************************************************************************)
(* Bounds of the model: how many seeds of the random source are explored   *)
(* (in Spec and SpecLive, in SpecPair), and how many iterations at each    *)
(* end of the loop Spec takes one by one (the iterations between are one   *)
(* step).                                                                  *)
(***************************************************************************)
NumSeeds == 3

MaxSingleSteps == 30

NumSeedsPair == 2

(***************************************************************************)
(* Program constants.                                                      *)
(***************************************************************************)
\* fault variant: a range that starts one code point late
RangeStartNext == 19968 + 1

\* range(0x4e00, 0x9fff + 1): first value
RangeStart == 19968

\* range(0x4e00, 0x9fff + 1): the literal 0x9fff
RangeLast == 40959

\* fault variant: a range whose stop argument lacks the `+ 1`
RangeStopExclusive == RangeLast

\* range(0x4e00, 0x9fff + 1): the exclusive stop argument
RangeStop == RangeLast + 1

\* fault variant: the list literal with its second and third entries exchanged
StyleTableSwapped ==
  << [color |-> "#B5B7C9", size |-> "14px"],
     [color |-> "#4E516B", size |-> "24px"],
     [color |-> "#8B91AD", size |-> "20px"],
     [color |-> "#2E3347", size |-> "27px"],
     [color |-> "#925D78", size |-> "30px"],
     [color |-> "#F1C5B5", size |-> "34px"] >>

\* the list literal bound to style_table
StyleTableLiteral ==
  << [color |-> "#B5B7C9", size |-> "14px"],
     [color |-> "#8B91AD", size |-> "20px"],
     [color |-> "#4E516B", size |-> "24px"],
     [color |-> "#2E3347", size |-> "27px"],
     [color |-> "#925D78", size |-> "30px"],
     [color |-> "#F1C5B5", size |-> "34px"] >>

(***************************************************************************)
(* The random source.  `import random` creates the process-wide generator  *)
(* and seeds it; from then on every value random.random() returns is set.  *)
(* The program never seeds it, so the seed is the environment's choice,    *)
(* made before DoJob runs.  RandomSeed<s> are the values random.random()   *)
(* returns, in order, after random.seed(s), for the 20,992 draws of a run: *)
(* a value x in [0, 1) is kept as the integer part of x * Resolution.      *)
(* Resolution is a multiple of the widths 6 and 7, so that int(x * width)  *)
(* is (v * width) \div Resolution exactly for both.                        *)
(***************************************************************************)
Resolution == 42

\* random.seed(0)
RandomSeed0 ==
  << 35, 31, 17, 10, 21, 17, 32, 12, 20, 24, 38, 21, 11, 31, 25, 10, 38, 41,
     34, 37, 13, 30, 37, 28, 19, 4, 18, 25, 38, 40, 20, 36, 10, 33, 23, 0, 30,
     16, 34, 28, 0, 20, 36, 10, 13, 36, 8, 23, 10, 40, 33, 18, 3, 13, 21, 39,
     4, 23, 29, 22, 34, 22, 40, 25, 24, 18, 25, 16, 24, 12, 7, 7, 25, 27, 20,
     3, 31, 36, 38, 35, 37, 38, 22, 16, 29, 11, 34, 35, 37, 24, 39, 24, 18, 27,
     41, 38, 33, 3, 25, 20, 26, 35, 10, 30, 4, 9, 33, 13, 34, 4, 6, 29, 1, 24,
     38, 22, 28, 1, 26, 25, 24, 16, 15, 41, 1, 0, 40, 7, 5, 8, 33, 39, 0, 17,
     4, 10, 9, 27, 14, 7, 21, 1, 4, 41, 8, 15, 30, 35, 38, 7, 28, 40, 2, 28,
     35, 14, 10, 25, 18, 7, 19, 17, 23, 21, 13, 15, 35, 10, 23, 0, 31, 14, 1,
     11, 10, 40, 14, 12, 15, 39, 26, 26, 30, 16, 17, 27, 0, 8, 14, 10, 26, 15,
     36, 23, 17, 16, 29, 17, 27, 1, 18, 10, 6, 22, 20, 23, 31, 37, 20, 13, 19,
     33, 36, 34, 7, 41, 26, 3, 30, 41, 16, 28, 13, 8, 30, 0, 34, 22, 4, 4, 27,
     36, 11, 41, 4, 35, 16, 3, 11, 19, 33, 36, 5, 21, 27, 14, 36, 11, 0, 1, 28,
     23, 39, 39, 38, 1, 31, 29, 27, 29, 37, 26, 15, 22, 8, 24, 0, 6, 14, 33,
     30, 14, 26, 1, 6, 41, 12, 16, 23, 12, 20, 10, 2, 7, 21, 2, 16, 13, 17, 4,
     38, 19, 35, 41, 14, 20, 29, 17, 12, 30, 37, 38, 26, 15, 40, 26, 2, 3, 31,
     2, 0, 16, 21, 18, 20, 24, 28, 17, 15, 41, 10, 32, 18, 15, 2, 36, 29, 37,
     18, 28, 4, 16, 8, 1, 39, 9, 6, 8, 15, 22, 6, 41, 41, 6, 17, 28, 36, 20,
     38, 13, 20, 20, 28, 8, 25, 9, 14, 40, 37, 34, 1, 6, 10, 32, 35, 24, 30,
     33, 2, 3, 36, 1, 9, 1, 0, 35, 13, 6, 6, 27, 40, 21, 37, 21, 24, 28, 33,
     31, 41, 31, 38, 8, 22, 25, 34, 20, 33, 16, 24, 35, 33, 27, 0, 7, 21, 10,
     2, 36, 39, 12, 17, 34, 2, 26, 5, 12, 34, 2, 1, 17, 20, 36, 30, 28, 6, 41,
     17, 25, 16, 1, 19, 6, 1, 25, 26, 4, 23, 14, 16, 32, 20, 37, 25, 19, 26,
     14, 5, 28, 26, 33, 5, 38, 33, 38, 36, 28, 34, 21, 32, 7, 32, 18, 31, 19,
     33, 3, 1, 39, 20, 37, 39, 27, 24, 9, 3, 34, 37, 32, 29, 17, 12, 4, 17, 23,
     38, 39, 17, 4, 32, 30, 1, 18, 28, 1, 38, 40, 30, 3, 2, 15, 1, 14, 0, 40,
     34, 2, 37, 8, 8, 28, 39, 5, 0, 15, 1, 25, 36, 7, 4, 14, 40, 5, 40, 15, 19,
     12, 39, 40, 26, 7, 41, 4, 24, 6, 37, 39, 33, 13, 10, 31, 12, 17, 1, 5, 0,
     3, 3, 17, 23, 31, 5, 17, 26, 3, 18, 15, 39, 2, 17, 17, 30, 13, 8, 12, 19,
     39, 33, 11, 23, 28, 33, 18, 16, 32, 18, 10, 19, 39, 5, 19, 26, 20, 8, 0,
     29, 25, 0, 12, 32, 26, 22, 6, 29, 19, 28, 31, 9, 32, 11, 41, 5, 37, 1, 10,
     22, 24, 16, 4, 10, 11, 31, 38, 25, 1, 33, 12, 14, 22, 10, 38, 6, 17, 12,
     21, 24, 26, 22, 17, 26, 16, 32, 33, 12, 15, 26, 6, 29, 16, 24, 5, 28, 14,
     19, 17, 20, 29, 13, 27, 2, 12, 31, 2, 26, 1, 19, 37, 0, 22, 2, 36, 28, 31,
     28, 0, 1, 26, 41, 36, 29, 30, 9, 31, 12, 4, 19, 13, 7, 17, 37, 18, 18, 29,
     22, 5, 38, 18, 33, 16, 33, 16, 9, 8, 39, 24, 2, 16, 9, 3, 7, 2, 26, 7, 25,
     25, 29, 21, 11, 36, 14, 19, 26, 21, 40, 40, 39, 39, 24, 20, 29, 9, 11, 1,
     6, 0, 27, 5, 33, 28, 40, 16, 38, 19, 14, 4, 37, 33, 13, 19, 13, 1, 1, 15,
     8, 22, 7, 8, 28, 30, 13, 36, 10, 14, 29, 1, 39, 3, 19, 30, 1, 33, 41, 19,
     4, 3, 4, 32, 17, 38, 18, 3, 17, 31, 34, 1, 7, 20, 5, 36, 39, 13, 18, 23,
     11, 22, 8, 12, 18, 25, 22, 10, 9, 4, 32, 4, 30, 10, 11, 30, 27, 31, 21,
     36, 5, 27, 4, 30, 15, 28, 29, 27, 9, 34, 10, 21, 28, 9, 26, 12, 7, 34, 23,
     13, 24, 1, 5, 16, 40, 21, 3, 32, 32, 32, 23, 29, 8, 30, 34, 31, 14, 24,
     26, 37, 4, 35, 22, 15, 19, 0, 9, 27, 27, 20, 40, 20, 13, 35, 10, 25, 29,
     34, 32, 16, 2, 1, 30, 40, 14, 18, 30, 27, 10, 28, 12, 14, 22, 30, 6, 0,
     26, 1, 1, 9, 27, 2, 2, 40, 17, 37, 9, 18, 15, 7, 13, 41, 31, 16, 17, 11,
     22, 30, 28, 19, 1, 38, 17, 16, 0, 5, 36, 21, 30, 6, 13, 35, 34, 10, 0, 33,
     7, 33, 28, 7, 3, 38, 25, 26, 19, 6, 25, 10, 33, 30, 1, 39, 1, 3, 12, 6, 9,
     14, 30, 16, 11, 20, 16, 13, 37, 23, 41, 32, 23, 11, 28, 19, 30, 16, 20, 0,
     31, 1, 28, 24, 32, 12, 28, 8, 22, 14, 41, 40, 8, 23, 13, 40, 38, 24, 30,
     28, 14, 38, 37, 13, 31, 0, 34, 23, 39, 15, 26, 13, 32, 25, 41, 0, 5, 1, 5,
     39, 39, 20, 39, 34, 32, 31, 7, 23, 17, 39, 7, 7, 27, 6, 4, 21, 33, 25, 31,
     11, 11, 18, 41, 30, 39, 22, 23, 41, 7, 32, 33, 35, 31, 6, 27, 38, 23, 15,
     39, 23, 17, 25, 33, 9, 0, 22, 39, 28, 26, 26, 20, 30, 10, 37, 11, 39, 38,
     3, 18, 31, 18, 21, 33, 29, 40, 6, 38, 38, 26, 39, 10, 37, 32, 25, 3, 1, 0,
     10, 32, 16, 32, 26, 16, 36, 1, 19, 34, 5, 29, 13, 1, 19, 21, 1, 23, 14, 0,
     8, 4, 22, 1, 38, 35, 39, 13, 38, 41, 32, 11, 28, 25, 16, 12, 2, 5, 5, 20,
     26, 32, 1, 34, 1, 23, 31, 26, 39, 14, 24, 3, 23, 34, 8, 10, 29, 10, 10,
     39, 41, 6, 37, 23, 1, 24, 26, 1, 31, 34, 3, 27, 19, 10, 19, 6, 14, 27, 20,
     23, 22, 34, 14, 34, 3, 17, 14, 18, 35, 21, 41, 36, 4, 13, 0, 30, 0, 37, 8,
     17, 2, 13, 16, 2, 32, 29, 15, 35, 3, 2, 14, 37, 31, 28, 23, 33, 17, 1, 33,
     8, 16, 15, 5, 14, 7, 25, 27, 0, 19, 23, 36, 20, 3, 2, 36, 33, 36, 11, 27,
     4, 34, 14, 40, 19, 1, 38, 26, 12, 1, 15, 6, 23, 6, 7, 38, 26, 10, 36, 26,
     39, 20, 37, 28, 1, 10, 11, 7, 10, 9, 36, 19, 36, 5, 23, 0, 39, 0, 16, 33,
     41, 0, 34, 21, 1, 32, 4, 25, 32, 28, 15, 1, 18, 38, 13, 10, 5, 21, 22, 3,
     17, 27, 40, 18, 18, 19, 9, 16, 27, 16, 24, 35, 41, 37, 15, 0, 25, 19, 9,
     1, 13, 33, 40, 4, 36, 2, 29, 1, 17, 36, 16, 38, 29, 25, 6, 14, 17, 24, 41,
     11, 21, 39, 14, 26, 32, 26, 31, 8, 40, 7, 24, 12, 26, 12, 18, 28, 11, 30,
     14, 5, 25, 6, 18, 16, 3, 29, 28, 32, 22, 23, 7, 8, 9, 22, 34, 14, 37, 30,
     30, 14, 4, 40, 35, 17, 36, 37, 14, 21, 13, 29, 38, 41, 31, 12, 36, 41, 14,
     39, 21, 40, 41, 34, 28, 6, 0, 25, 29, 39, 21, 29, 27, 8, 27, 41, 4, 28,
     25, 15, 33, 0, 37, 34, 20, 4, 19, 24, 10, 20, 32, 38, 23, 34, 3, 35, 38,
     7, 34, 35, 36, 21, 25, 8, 29, 17, 0, 5, 16, 37, 23, 38, 39, 3, 24, 14, 21,
     19, 20, 4, 34, 20, 27, 19, 7, 22, 6, 35, 34, 6, 2, 2, 16, 40, 23, 11, 9,
     4, 5, 34, 5, 36, 34, 5, 23, 0, 36, 23, 31, 20, 28, 39, 23, 36, 14, 4, 0,
     9, 35, 13, 9, 20, 39, 21, 14, 3, 24, 9, 15, 16, 31, 9, 39, 31, 20, 36, 15,
     16, 5, 32, 16, 21, 19, 27, 15, 38, 18, 15, 16, 32, 41, 36, 20, 12, 18, 14,
     10, 7, 40, 20, 4, 16, 16, 21, 41, 41, 23, 25, 28, 21, 20, 13, 28, 3, 13,
     37, 9, 40, 41, 24, 1, 3, 8, 13, 4, 33, 15, 9, 1, 16, 0, 4, 25, 39, 8, 31,
     8, 0, 37, 35, 2, 7, 9, 38, 16, 33, 18, 16, 32, 25, 11, 24, 29, 34, 28, 26,
     25, 3, 39, 30, 11, 29, 26, 27, 15, 24, 27, 8, 21, 5, 4, 38, 5, 37, 19, 19,
     14, 17, 15, 23, 14, 34, 9, 10, 20, 39, 1, 30, 0, 17, 32, 18, 18, 10, 19,
     9, 11, 27, 25, 39, 40, 21, 3, 12, 21, 28, 39, 6, 1, 36, 33, 32, 19, 28,
     17, 8, 16, 33, 33, 40, 37, 28, 21, 30, 7, 38, 29, 24, 18, 26, 25, 37, 23,
     8, 18, 10, 38, 35, 23, 8, 1, 5, 18, 28, 9, 28, 36, 31, 17, 27, 41, 37, 14,
     28, 6, 23, 14, 18, 18, 27, 35, 19, 6, 31, 31, 40, 16, 19, 22, 37, 29, 0,
     8, 35, 24, 36, 17, 8, 0, 41, 5, 27, 20, 15, 22, 3, 40, 20, 0, 17, 31, 13,
     31, 32, 10, 40, 1, 36, 21, 6, 10, 24, 11, 35, 9, 16, 21, 14, 34, 11, 3, 6,
     26, 23, 2, 41, 20, 13, 30, 1, 18, 27, 40, 31, 37, 4, 18, 1, 11, 16, 14,
     15, 33, 7, 34, 22, 14, 23, 6, 20, 0, 36, 13, 14, 41, 25, 17, 33, 2, 23,
     21, 36, 24, 20, 21, 32, 14, 23, 29, 41, 29, 40, 16, 25, 31, 14, 11, 40,
     14, 41, 35, 9, 34, 41, 11, 27, 32, 3, 34, 12, 29, 39, 1, 25, 12, 4, 29,
     41, 21, 14, 18, 17, 22, 17, 3, 41, 41, 7, 10, 18, 29, 1, 35, 26, 11, 36,
     27, 13, 23, 41, 2, 29, 35, 29, 5, 25, 33, 17, 24, 10, 13, 33, 20, 18, 5,
     15, 21, 9, 33, 16, 10, 12, 34, 37, 40, 0, 31, 22, 5, 10, 11, 16, 19, 39,
     2, 29, 35, 15, 10, 9, 12, 6, 23, 10, 1, 9, 34, 17, 37, 39, 10, 23, 37, 24,
     7, 10, 41, 12, 36, 33, 31, 30, 33, 35, 2, 7, 21, 8, 22, 20, 5, 3, 0, 34,
     3, 40, 41, 31, 18, 11, 17, 14, 16, 30, 37, 6, 10, 8, 1, 35, 21, 2, 18, 18,
     32, 31, 5, 26, 21, 0, 6, 28, 15, 40, 21, 28, 5, 20, 30, 35, 8, 16, 19, 18,
     19, 12, 33, 38, 14, 26, 15, 24, 29, 21, 28, 31, 35, 7, 9, 21, 21, 33, 21,
     37, 32, 21, 34, 19, 14, 18, 19, 27, 2, 30, 40, 19, 2, 8, 4, 10, 33, 0, 36,
     39, 7, 7, 40, 15, 34, 0, 41, 0, 25, 38, 34, 13, 34, 16, 20, 15, 14, 24,
     32, 29, 32, 0, 22, 14, 8, 38, 8, 7, 7, 27, 25, 21, 24, 39, 36, 38, 2, 37,
     1, 27, 39, 21, 17, 13, 38, 38, 26, 30, 14, 5, 41, 27, 11, 41, 25, 13, 37,
     3, 33, 6, 4, 10, 30, 25, 17, 6, 38, 32, 28, 34, 32, 4, 32, 35, 31, 20, 28,
     4, 32, 11, 32, 26, 21, 22, 3, 1, 0, 32, 5, 5, 16, 41, 37, 13, 34, 3, 16,
     24, 41, 2, 17, 38, 1, 25, 16, 23, 29, 17, 37, 40, 41, 2, 35, 36, 6, 39, 5,
     8, 40, 34, 24, 12, 10, 16, 0, 26, 2, 32, 2, 0, 11, 32, 34, 21, 39, 4, 13,
     31, 13, 6, 24, 2, 15, 10, 13, 20, 22, 3, 13, 16, 16, 20, 17, 3, 9, 27, 34,
     21, 6, 2, 6, 16, 23, 27, 22, 23, 14, 27, 30, 16, 34, 31, 37, 19, 14, 32,
     1, 16, 41, 14, 21, 10, 3, 4, 18, 25, 22, 21, 4, 1, 15, 39, 7, 11, 20, 38,
     39, 0, 27, 9, 27, 31, 37, 28, 35, 32, 6, 1, 31, 22, 41, 6, 16, 12, 36, 20,
     38, 29, 41, 25, 40, 7, 18, 24, 41, 23, 36, 26, 21, 16, 15, 12, 8, 40, 22,
     36, 37, 39, 10, 14, 26, 13, 6, 31, 23, 22, 29, 4, 38, 20, 29, 25, 25, 29,
     3, 20, 8, 16, 21, 14, 17, 30, 1, 40, 25, 6, 23, 3, 21, 28, 17, 13, 28, 39,
     36, 16, 36, 4, 2, 41, 32, 25, 23, 12, 37, 35, 20, 9, 28, 30, 41, 33, 3,
     41, 35, 24, 13, 30, 25, 4, 23, 0, 33, 34, 30, 3, 24, 16, 5, 37, 39, 38,
     22, 36, 8, 12, 38, 24, 9, 5, 9, 20, 12, 30, 11, 3, 37, 27, 40, 7, 36, 0,
     22, 20, 5, 34, 11, 37, 29, 35, 36, 33, 30, 0, 6, 8, 24, 0, 5, 20, 1, 13,
     9, 7, 13, 37, 9, 27, 30, 28, 7, 14, 11, 22, 40, 9, 23, 2, 15, 40, 38, 3,
     35, 30, 38, 19, 17, 37, 22, 31, 7, 2, 18, 13, 21, 14, 36, 30, 16, 5, 29,
     22, 6, 1, 25, 21, 24, 17, 19, 16, 3, 22, 5, 28, 31, 7, 8, 10, 25, 17, 37,
     23, 22, 9, 3, 38, 4, 5, 8, 24, 26, 18, 16, 26, 11, 33, 26, 25, 1, 14, 32,
     8, 27, 40, 18, 21, 8, 0, 9, 19, 25, 35, 12, 13, 30, 27, 30, 36, 3, 5, 20,
     25, 27, 9, 5, 38, 10, 0, 11, 21, 26, 31, 6, 21, 13, 30, 15, 34, 8, 41, 21,
     17, 30, 15, 1, 18, 12, 27, 22, 34, 20, 6, 6, 24, 11, 8, 39, 5, 38, 22, 39,
     35, 12, 19, 3, 15, 38, 4, 10, 1, 36, 28, 24, 19, 10, 24, 29, 33, 6, 26,
     28, 24, 30, 21, 40, 27, 26, 0, 6, 25, 32, 6, 26, 6, 32, 34, 26, 2, 11, 11,
     19, 32, 24, 41, 29, 5, 41, 2, 13, 26, 16, 0, 12, 10, 32, 24, 6, 36, 8, 13,
     36, 32, 17, 21, 41, 29, 30, 27, 41, 38, 12, 18, 26, 9, 27, 37, 12, 15, 18,
     16, 27, 2, 32, 11, 26, 17, 25, 23, 21, 6, 0, 4, 16, 10, 20, 19, 21, 5, 20,
     39, 7, 0, 14, 29, 36, 4, 1, 13, 26, 38, 13, 32, 5, 26, 10, 31, 38, 18, 28,
     14, 35, 17, 24, 41, 23, 19, 4, 39, 22, 29, 27, 9, 26, 4, 2, 35, 25, 12,
     22, 23, 28, 0, 6, 3, 31, 18, 8, 15, 28, 19, 22, 39, 16, 4, 4, 30, 13, 4,
     32, 37, 4, 25, 31, 10, 35, 28, 18, 6, 10, 34, 7, 29, 23, 23, 0, 5, 13, 26,
     16, 10, 16, 19, 24, 23, 15, 17, 33, 24, 40, 25, 11, 21, 19, 35, 30, 36,
     30, 10, 11, 6, 36, 37, 13, 0, 19, 33, 29, 28, 0, 4, 30, 34, 7, 34, 39, 25,
     23, 1, 17, 19, 40, 18, 0, 23, 2, 41, 27, 30, 29, 39, 17, 11, 3, 0, 20, 31,
     31, 0, 25, 34, 36, 32, 17, 29, 29, 2, 1, 14, 27, 16, 27, 31, 32, 11, 40,
     23, 26, 26, 28, 6, 28, 18, 40, 29, 40, 41, 35, 24, 25, 19, 15, 17, 38, 27,
     7, 1, 18, 18, 2, 9, 13, 15, 26, 6, 34, 20, 2, 4, 39, 1, 27, 7, 27, 41, 38,
     18, 18, 12, 18, 40, 1, 20, 37, 4, 4, 34, 11, 33, 12, 1, 34, 13, 19, 2, 27,
     34, 9, 39, 26, 23, 8, 36, 17, 1, 38, 15, 12, 2, 1, 1, 36, 36, 19, 3, 5,
     39, 23, 33, 3, 2, 32, 4, 34, 39, 18, 4, 30, 18, 21, 37, 22, 5, 15, 35, 21,
     3, 21, 1, 36, 10, 30, 41, 37, 22, 13, 29, 22, 38, 10, 29, 6, 17, 32, 15,
     11, 14, 15, 0, 6, 31, 29, 27, 5, 4, 20, 20, 5, 40, 34, 36, 7, 27, 34, 13,
     41, 3, 33, 6, 10, 7, 4, 28, 10, 33, 32, 40, 32, 41, 23, 1, 13, 16, 40, 17,
     11, 33, 38, 1, 41, 30, 41, 27, 0, 28, 9, 41, 39, 36, 29, 10, 38, 34, 26,
     7, 8, 23, 24, 17, 34, 28, 10, 1, 25, 13, 37, 9, 23, 8, 40, 27, 31, 37, 19,
     22, 18, 26, 14, 34, 15, 32, 0, 15, 20, 37, 30, 30, 26, 37, 30, 26, 38, 32,
     0, 36, 7, 31, 17, 16, 6, 18, 41, 34, 30, 27, 9, 2, 39, 38, 0, 38, 31, 4,
     6, 7, 10, 37, 17, 22, 17, 19, 10, 13, 10, 11, 25, 0, 39, 21, 21, 17, 30,
     31, 30, 40, 17, 3, 33, 29, 1, 20, 34, 39, 14, 19, 18, 31, 29, 19, 7, 24,
     1, 14, 12, 2, 4, 33, 19, 5, 39, 13, 18, 29, 6, 32, 35, 20, 29, 30, 41, 32,
     15, 21, 16, 22, 37, 4, 37, 21, 6, 39, 8, 1, 19, 24, 2, 26, 23, 23, 3, 14,
     5, 19, 15, 13, 37, 26, 4, 27, 41, 15, 32, 27, 19, 16, 8, 17, 11, 20, 28,
     37, 6, 34, 32, 26, 8, 3, 5, 13, 12, 34, 14, 6, 40, 29, 33, 20, 4, 24, 18,
     13, 3, 13, 11, 14, 29, 4, 15, 31, 13, 35, 36, 7, 27, 26, 7, 23, 19, 10,
     29, 37, 37, 4, 15, 3, 19, 27, 29, 2, 4, 26, 35, 25, 3, 3, 24, 9, 31, 12,
     34, 37, 22, 29, 32, 26, 27, 16, 37, 7, 6, 30, 8, 21, 37, 15, 30, 36, 27,
     3, 21, 33, 41, 19, 2, 14, 20, 39, 2, 38, 18, 4, 31, 5, 5, 9, 22, 27, 36,
     24, 26, 20, 21, 27, 11, 12, 26, 26, 7, 8, 23, 34, 13, 7, 2, 22, 22, 25,
     22, 27, 36, 13, 33, 9, 13, 20, 21, 30, 1, 31, 33, 0, 23, 0, 5, 36, 2, 38,
     28, 32, 28, 31, 30, 37, 15, 16, 27, 22, 28, 15, 17, 16, 1, 30, 23, 37, 30,
     17, 32, 2, 26, 39, 37, 13, 11, 12, 37, 14, 17, 13, 11, 36, 18, 22, 16, 14,
     16, 37, 11, 29, 8, 38, 19, 12, 17, 31, 35, 34, 5, 40, 20, 39, 7, 39, 8,
     36, 11, 35, 6, 35, 27, 5, 39, 18, 7, 35, 2, 1, 30, 3, 31, 3, 39, 5, 23,
     27, 15, 4, 20, 14, 37, 8, 9, 25, 18, 12, 5, 35, 4, 37, 39, 5, 38, 11, 33,
     13, 18, 29, 22, 31, 16, 2, 14, 37, 33, 38, 24, 13, 20, 20, 10, 36, 2, 13,
     41, 23, 39, 0, 34, 26, 35, 30, 41, 14, 31, 35, 29, 33, 34, 11, 11, 16, 0,
     38, 34, 5, 34, 13, 25, 20, 18, 25, 38, 17, 1, 35, 39, 33, 6, 17, 31, 36,
     36, 38, 26, 5, 17, 40, 5, 39, 15, 24, 34, 3, 4, 20, 37, 40, 27, 8, 33, 15,
     11, 24, 18, 21, 40, 1, 36, 18, 35, 36, 30, 19, 21, 25, 16, 29, 35, 14, 40,
     23, 12, 6, 30, 11, 33, 39, 14, 15, 12, 10, 41, 34, 36, 1, 40, 34, 34, 38,
     17, 3, 23, 22, 9, 31, 41, 30, 33, 32, 34, 6, 25, 25, 36, 18, 10, 22, 20,
     0, 2, 7, 20, 27, 21, 24, 41, 3, 15, 22, 33, 37, 26, 27, 37, 33, 24, 0, 17,
     2, 40, 34, 14, 4, 23, 14, 30, 35, 25, 34, 0, 9, 18, 19, 34, 7, 24, 22, 27,
     0, 1, 3, 16, 25, 30, 27, 4, 36, 16, 34, 7, 15, 28, 26, 21, 38, 34, 25, 28,
     17, 21, 26, 35, 8, 19, 7, 8, 1, 5, 31, 13, 12, 6, 24, 17, 2, 16, 33, 31,
     40, 36, 20, 33, 32, 17, 16, 23, 18, 26, 34, 38, 27, 22, 9, 16, 9, 30, 22,
     6, 6, 1, 4, 26, 26, 22, 33, 22, 10, 32, 15, 1, 9, 18, 25, 32, 36, 32, 31,
     24, 8, 27, 29, 11, 15, 12, 41, 29, 15, 8, 14, 10, 34, 7, 15, 22, 10, 7,
     40, 37, 1, 22, 1, 18, 4, 33, 8, 12, 3, 40, 21, 17, 23, 7, 33, 12, 35, 31,
     12, 20, 12, 39, 35, 22, 28, 3, 33, 15, 11, 13, 37, 4, 41, 19, 26, 21, 2,
     32, 16, 20, 34, 13, 5, 1, 28, 2, 24, 2, 4, 16, 12, 4, 39, 39, 40, 41, 38,
     23, 16, 31, 21, 9, 32, 6, 27, 39, 22, 6, 15, 21, 18, 6, 25, 36, 40, 7, 27,
     0, 6, 21, 25, 10, 30, 37, 40, 4, 28, 21, 29, 39, 12, 37, 3, 1, 38, 10, 29,
     9, 24, 14, 30, 31, 37, 33, 18, 5, 28, 18, 29, 41, 14, 18, 14, 13, 10, 14,
     15, 15, 39, 15, 0, 40, 24, 12, 33, 0, 35, 4, 1, 6, 35, 2, 38, 12, 8, 27,
     10, 23, 32, 28, 13, 26, 26, 0, 19, 26, 16, 6, 38, 0, 36, 7, 41, 38, 3, 32,
     28, 36, 20, 13, 33, 30, 22, 41, 32, 20, 38, 21, 35, 2, 5, 8, 9, 5, 1, 23,
     24, 30, 25, 19, 18, 0, 25, 26, 26, 40, 29, 8, 25, 23, 28, 24, 31, 19, 23,
     38, 11, 27, 30, 34, 24, 40, 40, 21, 18, 4, 24, 13, 28, 30, 36, 31, 33, 35,
     41, 13, 24, 23, 23, 28, 39, 0, 13, 19, 21, 38, 20, 9, 36, 21, 32, 11, 39,
     16, 18, 20, 13, 31, 24, 25, 25, 12, 14, 3, 16, 11, 14, 26, 28, 31, 9, 7,
     40, 19, 19, 3, 28, 7, 2, 10, 40, 13, 2, 28, 7, 11, 19, 22, 12, 38, 31, 26,
     3, 34, 34, 33, 34, 7, 37, 12, 11, 0, 6, 14, 9, 36, 2, 18, 15, 36, 35, 13,
     28, 19, 10, 29, 19, 29, 30, 23, 11, 5, 0, 17, 27, 34, 11, 2, 20, 14, 14,
     1, 21, 18, 29, 28, 16, 1, 40, 8, 31, 23, 1, 30, 40, 6, 30, 24, 22, 18, 18,
     7, 15, 28, 35, 30, 26, 9, 0, 36, 32, 39, 5, 40, 13, 23, 0, 33, 39, 39, 6,
     5, 23, 17, 0, 12, 32, 32, 9, 38, 15, 32, 14, 41, 28, 15, 2, 7, 39, 24, 33,
     8, 22, 25, 39, 21, 38, 13, 24, 26, 4, 6, 10, 11, 7, 17, 4, 6, 35, 7, 18,
     3, 33, 11, 27, 34, 17, 8, 6, 19, 24, 27, 24, 10, 0, 5, 18, 40, 23, 41, 35,
     41, 12, 28, 18, 36, 25, 16, 39, 35, 20, 17, 16, 17, 13, 7, 34, 5, 26, 6,
     36, 9, 5, 0, 37, 33, 13, 36, 21, 9, 23, 1, 29, 11, 15, 36, 26, 40, 9, 0,
     35, 25, 5, 10, 39, 24, 23, 32, 37, 16, 34, 36, 40, 20, 37, 34, 19, 30, 5,
     31, 16, 34, 14, 33, 12, 20, 16, 41, 10, 35, 33, 39, 29, 20, 39, 1, 38, 31,
     8, 12, 36, 4, 11, 6, 8, 5, 14, 36, 24, 6, 4, 41, 10, 12, 7, 11, 39, 15,
     17, 14, 25, 22, 10, 4, 23, 23, 2, 14, 17, 20, 13, 28, 33, 5, 17, 28, 24,
     36, 36, 22, 37, 33, 6, 0, 16, 15, 1, 34, 21, 40, 35, 33, 16, 39, 29, 4,
     23, 8, 26, 16, 1, 37, 38, 26, 8, 17, 29, 4, 8, 3, 39, 31, 5, 9, 27, 40, 9,
     35, 18, 36, 0, 21, 17, 33, 40, 4, 31, 15, 37, 36, 41, 21, 20, 8, 2, 38, 4,
     18, 4, 1, 13, 4, 11, 41, 10, 33, 33, 2, 16, 6, 13, 5, 5, 30, 2, 20, 23,
     17, 10, 26, 4, 7, 12, 18, 8, 27, 10, 20, 33, 28, 25, 34, 16, 18, 16, 5,
     25, 20, 33, 25, 14, 36, 11, 12, 36, 41, 8, 9, 24, 1, 34, 17, 30, 1, 33,
     23, 0, 2, 17, 26, 19, 27, 37, 16, 17, 33, 1, 14, 2, 27, 28, 27, 26, 31, 0,
     26, 26, 35, 31, 1, 24, 17, 11, 4, 5, 6, 10, 20, 25, 10, 8, 21, 20, 3, 9,
     16, 39, 19, 10, 36, 41, 6, 36, 20, 10, 34, 23, 23, 29, 16, 29, 31, 33, 2,
     12, 24, 27, 25, 33, 13, 26, 22, 35, 12, 22, 9, 38, 40, 12, 36, 18, 12, 15,
     31, 41, 34, 35, 12, 8, 10, 39, 6, 8, 33, 36, 10, 21, 15, 36, 24, 20, 28,
     41, 26, 33, 34, 11, 16, 8, 25, 33, 17, 13, 17, 30, 1, 38, 27, 24, 0, 3, 6,
     25, 23, 6, 36, 13, 5, 12, 31, 20, 26, 11, 26, 10, 0, 30, 18, 12, 22, 16,
     33, 40, 27, 1, 27, 0, 16, 3, 36, 1, 28, 19, 21, 10, 15, 18, 18, 20, 35,
     26, 36, 21, 21, 26, 29, 30, 23, 16, 11, 30, 2, 40, 41, 37, 37, 40, 25, 35,
     7, 19, 0, 14, 18, 7, 29, 7, 6, 31, 38, 38, 36, 8, 25, 22, 2, 9, 24, 36,
     31, 34, 19, 40, 25, 11, 13, 15, 5, 27, 22, 34, 4, 6, 14, 9, 10, 14, 14,
     21, 31, 21, 37, 2, 27, 27, 39, 24, 29, 19, 3, 4, 19, 26, 16, 7, 36, 40,
     14, 11, 5, 40, 23, 22, 13, 33, 7, 27, 28, 39, 35, 18, 30, 21, 5, 22, 30,
     38, 23, 11, 21, 29, 11, 5, 8, 12, 8, 12, 1, 18, 29, 0, 6, 4, 17, 36, 11,
     16, 14, 6, 3, 9, 1, 16, 31, 11, 41, 21, 31, 23, 23, 32, 32, 8, 6, 7, 9, 3,
     9, 16, 26, 1, 25, 29, 37, 27, 23, 12, 16, 25, 33, 14, 27, 15, 25, 1, 4,
     27, 36, 13, 31, 32, 2, 28, 18, 8, 8, 34, 28, 17, 19, 6, 41, 22, 3, 17, 36,
     13, 30, 3, 32, 25, 19, 8, 20, 33, 2, 10, 12, 12, 28, 39, 24, 27, 20, 19,
     30, 28, 15, 20, 2, 12, 31, 41, 19, 18, 6, 28, 37, 2, 27, 8, 5, 27, 12, 3,
     30, 36, 24, 32, 29, 22, 19, 23, 11, 0, 26, 37, 14, 18, 29, 1, 10, 32, 27,
     1, 15, 25, 4, 39, 7, 25, 2, 10, 6, 32, 41, 37, 9, 26, 38, 27, 2, 18, 13,
     27, 2, 27, 2, 2, 9, 36, 32, 11, 0, 10, 39, 23, 3, 30, 26, 35, 41, 35, 28,
     36, 26, 8, 21, 12, 10, 7, 2, 11, 36, 21, 22, 4, 40, 5, 40, 7, 2, 39, 1,
     11, 27, 24, 30, 13, 31, 2, 1, 9, 34, 4, 30, 39, 40, 3, 10, 2, 32, 17, 11,
     37, 24, 40, 28, 4, 5, 4, 15, 33, 38, 2, 17, 39, 33, 11, 37, 5, 14, 8, 17,
     22, 3, 7, 25, 35, 3, 40, 21, 32, 2, 15, 19, 23, 40, 21, 38, 40, 37, 14,
     36, 13, 30, 29, 25, 37, 33, 34, 17, 37, 30, 13, 17, 10, 35, 15, 15, 16,
     23, 11, 34, 28, 33, 2, 15, 8, 8, 14, 35, 15, 2, 35, 33, 23, 1, 6, 15, 17,
     12, 32, 40, 17, 7, 18, 5, 19, 17, 41, 14, 5, 39, 29, 29, 13, 8, 29, 12,
     25, 3, 18, 26, 23, 26, 9, 19, 2, 3, 8, 27, 33, 25, 14, 0, 29, 35, 0, 25,
     14, 17, 30, 18, 23, 29, 27, 19, 22, 27, 0, 0, 19, 29, 39, 22, 28, 38, 4,
     5, 20, 23, 12, 16, 36, 22, 24, 38, 24, 19, 7, 8, 21, 1, 21, 36, 16, 35,
     31, 34, 14, 25, 27, 4, 7, 28, 30, 1, 20, 20, 17, 32, 40, 1, 39, 30, 16, 9,
     24, 22, 39, 40, 32, 36, 29, 32, 22, 29, 18, 38, 38, 41, 10, 9, 25, 15, 16,
     32, 28, 35, 33, 20, 4, 17, 33, 15, 35, 16, 34, 31, 28, 0, 38, 15, 3, 0,
     36, 17, 24, 41, 39, 26, 30, 27, 17, 4, 8, 12, 8, 39, 8, 9, 29, 40, 26, 12,
     34, 6, 27, 20, 31, 20, 26, 0, 35, 30, 8, 39, 41, 26, 35, 41, 12, 7, 13,
     40, 12, 18, 35, 7, 19, 11, 17, 40, 18, 2, 37, 36, 14, 2, 20, 26, 18, 2, 3,
     31, 22, 27, 12, 18, 14, 27, 19, 4, 28, 40, 17, 1, 22, 26, 14, 37, 39, 19,
     21, 17, 28, 2, 12, 33, 8, 22, 9, 4, 17, 23, 11, 14, 18, 30, 6, 24, 25, 40,
     25, 17, 20, 25, 22, 28, 12, 10, 41, 39, 31, 41, 41, 11, 14, 38, 30, 6, 33,
     8, 8, 25, 8, 16, 6, 28, 25, 38, 4, 41, 12, 1, 14, 39, 12, 20, 11, 28, 15,
     38, 4, 26, 41, 15, 22, 32, 6, 19, 35, 36, 22, 33, 22, 28, 34, 3, 3, 1, 37,
     9, 21, 14, 16, 14, 36, 4, 31, 21, 24, 19, 32, 22, 17, 17, 17, 23, 10, 41,
     36, 14, 22, 27, 20, 7, 27, 28, 24, 21, 19, 41, 4, 37, 0, 31, 19, 22, 2,
     40, 7, 34, 41, 37, 26, 6, 24, 28, 39, 28, 6, 1, 33, 14, 14, 14, 38, 35,
     33, 20, 41, 24, 37, 40, 25, 24, 40, 1, 22, 4, 34, 39, 23, 12, 37, 4, 33,
     1, 32, 32, 33, 27, 7, 34, 9, 34, 26, 35, 22, 0, 38, 23, 18, 19, 23, 32,
     13, 18, 8, 20, 32, 1, 35, 6, 6, 8, 31, 28, 35, 7, 37, 6, 6, 17, 14, 31,
     28, 2, 4, 22, 4, 23, 30, 25, 0, 39, 10, 19, 22, 41, 12, 27, 35, 23, 9, 11,
     5, 30, 20, 13, 38, 8, 5, 26, 16, 15, 24, 25, 0, 4, 1, 1, 8, 38, 3, 8, 24,
     15, 27, 8, 28, 3, 14, 17, 25, 0, 1, 4, 25, 18, 29, 18, 0, 10, 39, 34, 31,
     13, 30, 11, 1, 16, 29, 10, 41, 13, 26, 4, 3, 33, 25, 4, 16, 26, 33, 18,
     19, 36, 24, 32, 23, 29, 33, 35, 7, 29, 29, 18, 12, 8, 39, 28, 38, 26, 13,
     32, 36, 34, 22, 20, 34, 29, 3, 31, 34, 21, 9, 19, 20, 34, 20, 36, 17, 7,
     17, 33, 25, 38, 29, 29, 38, 30, 22, 36, 38, 38, 9, 20, 26, 2, 17, 25, 35,
     1, 13, 13, 6, 13, 41, 20, 3, 32, 41, 38, 25, 16, 34, 24, 7, 27, 19, 29, 8,
     12, 12, 12, 29, 14, 27, 0, 1, 19, 38, 1, 3, 41, 13, 3, 2, 3, 9, 24, 1, 35,
     39, 14, 34, 25, 1, 34, 40, 30, 30, 16, 35, 1, 14, 34, 7, 7, 2, 1, 37, 32,
     22, 35, 6, 41, 30, 34, 10, 0, 25, 31, 38, 6, 9, 25, 34, 12, 16, 29, 3, 20,
     11, 1, 15, 12, 37, 23, 9, 12, 22, 41, 11, 15, 4, 3, 8, 27, 28, 34, 34, 11,
     15, 39, 22, 27, 29, 38, 17, 32, 18, 14, 30, 25, 13, 24, 4, 38, 1, 2, 29,
     32, 39, 17, 39, 21, 3, 12, 20, 37, 2, 22, 23, 36, 15, 19, 27, 9, 26, 18,
     10, 10, 24, 28, 11, 16, 40, 14, 24, 19, 17, 9, 15, 34, 19, 41, 40, 10, 5,
     29, 1, 8, 12, 9, 19, 39, 20, 13, 7, 21, 0, 9, 22, 36, 15, 13, 13, 36, 21,
     37, 28, 10, 16, 3, 2, 39, 24, 34, 9, 23, 22, 5, 34, 39, 38, 7, 24, 39, 41,
     20, 37, 36, 36, 28, 39, 28, 5, 8, 9, 6, 21, 12, 12, 14, 5, 20, 37, 21, 32,
     16, 41, 14, 12, 28, 29, 15, 17, 8, 25, 10, 21, 2, 20, 36, 17, 25, 7, 0,
     10, 7, 34, 11, 40, 29, 35, 4, 17, 13, 8, 38, 32, 6, 25, 34, 16, 34, 22,
     30, 34, 4, 32, 19, 35, 5, 12, 22, 27, 14, 28, 39, 14, 2, 15, 0, 6, 27, 11,
     5, 38, 6, 14, 21, 36, 31, 24, 41, 21, 8, 20, 15, 16, 20, 34, 22, 29, 39,
     5, 30, 33, 26, 30, 13, 4, 6, 35, 20, 7, 19, 22, 20, 1, 7, 25, 14, 32, 13,
     33, 23, 13, 12, 17, 3, 32, 38, 26, 24, 32, 3, 31, 28, 6, 23, 33, 10, 3, 4,
     12, 16, 35, 20, 32, 9, 29, 40, 17, 36, 2, 3, 1, 36, 34, 31, 36, 12, 32,
     37, 25, 33, 35, 27, 33, 37, 9, 8, 25, 37, 34, 34, 6, 11, 39, 30, 30, 35,
     28, 12, 37, 13, 39, 27, 8, 35, 33, 37, 27, 6, 3, 5, 22, 20, 24, 18, 30,
     22, 27, 35, 3, 35, 9, 40, 19, 17, 40, 23, 1, 37, 11, 16, 6, 41, 26, 37,
     26, 36, 36, 40, 31, 40, 28, 31, 38, 39, 41, 0, 24, 40, 27, 8, 6, 14, 22,
     17, 15, 3, 27, 16, 21, 2, 41, 12, 29, 33, 7, 15, 14, 7, 27, 31, 27, 30, 3,
     17, 20, 40, 19, 22, 22, 7, 0, 37, 39, 0, 6, 36, 23, 3, 21, 33, 10, 17, 30,
     16, 0, 11, 23, 28, 17, 13, 29, 40, 36, 20, 5, 27, 8, 9, 26, 9, 29, 21, 18,
     33, 19, 30, 26, 31, 37, 8, 28, 0, 9, 31, 12, 9, 23, 37, 22, 8, 12, 5, 13,
     2, 27, 22, 4, 1, 6, 36, 40, 12, 18, 8, 30, 21, 0, 9, 0, 18, 36, 36, 25,
     40, 38, 21, 16, 13, 7, 23, 19, 0, 1, 9, 10, 18, 37, 38, 11, 28, 23, 37,
     12, 18, 24, 17, 17, 8, 31, 34, 27, 23, 36, 36, 0, 28, 0, 17, 8, 8, 18, 1,
     30, 20, 36, 11, 40, 40, 16, 6, 5, 2, 1, 36, 15, 19, 18, 33, 16, 14, 28,
     16, 27, 19, 23, 16, 10, 39, 24, 26, 12, 26, 23, 24, 22, 10, 27, 3, 13, 12,
     18, 0, 8, 35, 33, 0, 25, 21, 4, 31, 15, 16, 15, 25, 35, 35, 13, 37, 2, 26,
     29, 40, 17, 17, 26, 14, 40, 14, 6, 14, 10, 41, 37, 30, 11, 11, 6, 24, 9,
     4, 37, 11, 26, 5, 11, 5, 11, 0, 15, 39, 26, 39, 18, 2, 6, 20, 9, 3, 11,
     19, 17, 31, 39, 22, 3, 4, 16, 3, 22, 29, 12, 21, 41, 6, 39, 17, 36, 15,
     38, 37, 34, 13, 10, 4, 32, 16, 19, 4, 2, 35, 23, 6, 7, 15, 11, 5, 0, 40,
     18, 27, 23, 29, 37, 13, 27, 0, 12, 1, 18, 35, 37, 28, 35, 19, 3, 19, 30,
     9, 5, 41, 18, 27, 41, 29, 17, 22, 20, 18, 23, 12, 4, 40, 37, 28, 18, 37,
     19, 27, 38, 7, 32, 39, 17, 23, 13, 39, 14, 10, 16, 4, 6, 4, 29, 13, 1, 29,
     12, 34, 38, 24, 39, 38, 16, 29, 0, 26, 40, 23, 12, 22, 16, 12, 18, 9, 19,
     10, 0, 0, 17, 12, 1, 34, 4, 12, 34, 30, 17, 32, 10, 17, 34, 13, 33, 18,
     29, 7, 19, 5, 23, 5, 39, 38, 11, 13, 0, 41, 24, 13, 41, 11, 27, 17, 5, 10,
     29, 9, 13, 7, 1, 2, 8, 3, 28, 37, 20, 12, 21, 30, 26, 6, 32, 37, 21, 29,
     24, 6, 16, 40, 2, 32, 25, 23, 20, 6, 25, 39, 21, 35, 28, 7, 34, 7, 39, 6,
     17, 34, 15, 25, 27, 12, 17, 24, 21, 39, 30, 3, 28, 24, 22, 13, 32, 38, 13,
     20, 30, 31, 11, 24, 36, 2, 34, 29, 34, 37, 31, 27, 3, 23, 1, 18, 3, 25, 1,
     30, 27, 3, 5, 32, 31, 38, 14, 8, 40, 19, 23, 3, 33, 9, 39, 19, 6, 25, 10,
     4, 20, 21, 29, 37, 9, 34, 19, 5, 31, 16, 23, 0, 10, 24, 1, 5, 22, 9, 29,
     37, 6, 15, 3, 39, 29, 6, 9, 25, 12, 6, 35, 11, 29, 16, 10, 36, 29, 17, 26,
     5, 40, 31, 34, 8, 35, 13, 14, 28, 36, 28, 12, 34, 5, 39, 29, 23, 8, 19,
     17, 22, 32, 34, 20, 25, 34, 30, 25, 16, 2, 34, 8, 23, 8, 0, 16, 22, 10, 2,
     32, 20, 2, 5, 29, 41, 39, 40, 19, 27, 3, 24, 30, 37, 3, 17, 11, 4, 9, 33,
     23, 22, 9, 34, 20, 35, 18, 0, 9, 25, 7, 20, 25, 16, 1, 2, 34, 20, 3, 8,
     13, 2, 25, 21, 32, 20, 22, 33, 34, 13, 4, 37, 32, 0, 2, 36, 16, 0, 23, 41,
     41, 10, 31, 7, 34, 25, 34, 28, 34, 5, 11, 7, 5, 9, 3, 18, 14, 0, 8, 29, 1,
     0, 35, 38, 1, 10, 15, 24, 26, 40, 11, 16, 15, 35, 8, 38, 27, 20, 30, 8, 1,
     36, 14, 36, 26, 24, 37, 12, 16, 35, 38, 33, 38, 23, 7, 35, 37, 12, 28, 0,
     38, 14, 23, 28, 34, 29, 13, 39, 9, 31, 21, 10, 21, 13, 21, 8, 11, 10, 36,
     16, 35, 15, 13, 27, 16, 34, 27, 29, 40, 35, 14, 19, 36, 37, 22, 22, 3, 8,
     4, 13, 0, 21, 0, 15, 4, 10, 27, 11, 0, 34, 22, 37, 11, 13, 1, 21, 37, 0,
     24, 10, 28, 38, 20, 36, 16, 9, 17, 27, 33, 28, 3, 33, 5, 4, 8, 7, 8, 8,
     22, 36, 22, 27, 32, 41, 11, 39, 8, 8, 33, 3, 37, 37, 29, 29, 20, 2, 14,
     31, 24, 12, 7, 8, 22, 29, 39, 32, 29, 26, 41, 25, 32, 16, 5, 15, 33, 21,
     20, 8, 15, 31, 17, 7, 40, 39, 36, 20, 41, 2, 27, 1, 14, 23, 20, 18, 39,
     37, 37, 32, 8, 27, 15, 37, 14, 25, 34, 13, 5, 14, 11, 14, 41, 36, 24, 35,
     21, 39, 10, 37, 23, 4, 19, 13, 9, 33, 7, 26, 23, 23, 7, 29, 19, 23, 38,
     41, 25, 21, 41, 1, 6, 29, 13, 20, 26, 16, 24, 13, 6, 26, 6, 7, 35, 32, 4,
     30, 34, 34, 26, 22, 25, 13, 24, 33, 18, 4, 35, 12, 18, 27, 33, 26, 16, 4,
     40, 20, 18, 32, 31, 29, 41, 34, 26, 5, 34, 21, 24, 23, 9, 23, 19, 37, 39,
     41, 22, 12, 3, 0, 11, 1, 30, 20, 34, 35, 19, 20, 22, 27, 19, 40, 11, 1,
     40, 3, 7, 11, 35, 13, 27, 35, 22, 9, 21, 0, 15, 7, 16, 2, 28, 28, 33, 25,
     5, 6, 41, 29, 27, 20, 13, 35, 39, 10, 14, 13, 41, 24, 31, 14, 13, 31, 34,
     6, 36, 27, 12, 8, 39, 21, 18, 12, 27, 0, 38, 25, 0, 2, 25, 10, 13, 36, 33,
     21, 36, 24, 11, 40, 2, 2, 37, 23, 36, 33, 30, 40, 14, 26, 38, 10, 0, 22,
     17, 16, 16, 28, 22, 18, 28, 15, 20, 14, 22, 38, 4, 26, 7, 38, 34, 17, 40,
     2, 25, 14, 33, 41, 12, 25, 27, 13, 12, 4, 39, 20, 29, 33, 11, 8, 15, 25,
     22, 4, 41, 41, 35, 7, 17, 33, 41, 25, 7, 37, 12, 34, 27, 14, 25, 15, 25,
     32, 30, 24, 30, 33, 15, 8, 29, 8, 27, 30, 14, 9, 31, 40, 31, 36, 20, 10,
     4, 6, 11, 32, 5, 41, 1, 23, 24, 21, 6, 19, 35, 10, 15, 12, 16, 25, 21, 40,
     19, 12, 0, 12, 34, 41, 24, 20, 16, 13, 14, 33, 14, 24, 5, 36, 12, 19, 10,
     6, 39, 29, 38, 1, 23, 25, 40, 30, 26, 11, 37, 24, 0, 26, 36, 4, 8, 22, 1,
     16, 24, 10, 35, 4, 33, 8, 35, 27, 31, 21, 34, 6, 31, 0, 10, 3, 18, 11, 37,
     1, 32, 36, 26, 8, 0, 3, 34, 26, 38, 29, 4, 26, 13, 26, 7, 33, 29, 22, 25,
     18, 21, 21, 14, 11, 16, 4, 0, 31, 36, 14, 12, 31, 37, 1, 7, 4, 15, 34, 1,
     13, 39, 24, 13, 36, 31, 2, 37, 38, 20, 26, 16, 14, 26, 32, 18, 22, 5, 14,
     18, 37, 25, 14, 33, 10, 24, 39, 0, 24, 32, 22, 10, 36, 25, 17, 18, 37, 28,
     41, 28, 4, 20, 26, 0, 6, 27, 2, 29, 5, 18, 33, 26, 8, 23, 30, 8, 2, 6, 32,
     8, 32, 40, 29, 33, 32, 30, 29, 0, 19, 16, 32, 32, 18, 30, 7, 36, 3, 19,
     13, 35, 16, 4, 28, 7, 38, 30, 31, 13, 40, 17, 11, 27, 34, 39, 17, 31, 3,
     38, 0, 22, 12, 16, 18, 20, 33, 20, 21, 1, 15, 34, 12, 36, 18, 11, 5, 10,
     25, 8, 40, 36, 20, 40, 2, 27, 19, 1, 29, 25, 28, 9, 3, 10, 17, 27, 30, 12,
     34, 26, 8, 40, 38, 33, 23, 12, 6, 10, 22, 17, 10, 28, 21, 5, 11, 15, 11,
     39, 9, 34, 0, 25, 3, 11, 41, 1, 15, 18, 15, 29, 32, 30, 10, 22, 35, 14,
     12, 30, 0, 30, 15, 34, 37, 20, 20, 15, 33, 6, 16, 10, 4, 31, 37, 32, 8,
     11, 25, 10, 12, 21, 33, 25, 40, 14, 33, 23, 8, 4, 20, 8, 16, 1, 18, 15,
     19, 34, 27, 13, 0, 5, 21, 37, 19, 17, 21, 5, 33, 20, 3, 38, 2, 1, 0, 22,
     13, 2, 1, 19, 2, 8, 31, 12, 1, 40, 39, 26, 31, 38, 14, 26, 40, 2, 36, 18,
     38, 15, 1, 21, 39, 23, 10, 28, 23, 23, 10, 9, 0, 40, 31, 37, 19, 9, 19,
     40, 36, 30, 28, 18, 24, 31, 10, 2, 30, 20, 27, 12, 29, 36, 25, 0, 34, 9,
     19, 3, 16, 37, 20, 29, 18, 20, 11, 28, 8, 37, 35, 10, 21, 40, 35, 4, 17,
     15, 36, 40, 32, 26, 11, 11, 18, 17, 29, 17, 37, 4, 6, 32, 37, 22, 23, 24,
     34, 35, 13, 16, 30, 29, 22, 12, 29, 32, 28, 38, 1, 10, 8, 8, 1, 27, 24, 7,
     23, 11, 33, 29, 20, 28, 37, 25, 15, 7, 20, 0, 11, 22, 22, 7, 16, 19, 35,
     8, 15, 38, 15, 22, 21, 38, 39, 11, 25, 31, 1, 31, 16, 27, 16, 8, 27, 2,
     23, 22, 0, 28, 20, 10, 22, 27, 26, 29, 9, 38, 20, 11, 25, 3, 0, 10, 35, 4,
     22, 31, 24, 9, 20, 17, 4, 14, 41, 1, 6, 35, 35, 4, 35, 36, 20, 7, 20, 1,
     32, 8, 13, 24, 27, 10, 16, 24, 11, 36, 21, 27, 35, 3, 34, 11, 8, 28, 18,
     31, 3, 26, 20, 31, 1, 3, 27, 41, 4, 10, 2, 34, 4, 30, 15, 22, 15, 8, 35,
     2, 15, 32, 21, 21, 4, 8, 30, 13, 30, 25, 29, 12, 17, 35, 8, 3, 33, 36, 7,
     34, 9, 33, 28, 19, 16, 36, 9, 24, 7, 39, 4, 39, 37, 40, 30, 39, 0, 15, 22,
     23, 1, 36, 5, 5, 3, 37, 9, 26, 37, 29, 28, 34, 3, 27, 17, 30, 27, 13, 23,
     32, 38, 37, 7, 17, 38, 25, 3, 10, 12, 29, 18, 17, 33, 2, 16, 41, 33, 33,
     4, 4, 0, 1, 40, 39, 40, 23, 6, 3, 35, 24, 40, 8, 9, 32, 3, 27, 9, 27, 33,
     37, 35, 22, 29, 14, 28, 25, 18, 15, 20, 39, 34, 0, 33, 16, 41, 5, 35, 20,
     11, 38, 23, 32, 17, 13, 36, 17, 7, 27, 31, 38, 28, 13, 8, 24, 34, 4, 32,
     35, 23, 26, 41, 31, 12, 33, 24, 15, 38, 14, 24, 40, 38, 40, 14, 10, 28, 8,
     37, 13, 34, 39, 39, 15, 10, 26, 1, 41, 11, 18, 11, 38, 35, 22, 24, 39, 5,
     2, 10, 2, 23, 14, 36, 3, 5, 24, 7, 32, 5, 22, 27, 11, 29, 22, 0, 8, 8, 20,
     10, 0, 33, 11, 12, 41, 5, 13, 23, 36, 4, 14, 25, 33, 28, 12, 1, 0, 35, 12,
     27, 17, 17, 27, 25, 22, 4, 34, 18, 12, 19, 37, 29, 35, 37, 41, 4, 18, 6,
     25, 23, 8, 6, 38, 3, 37, 15, 33, 33, 20, 21, 1, 11, 18, 23, 24, 11, 17, 8,
     29, 10, 27, 40, 9, 0, 17, 3, 22, 39, 11, 4, 16, 29, 36, 18, 0, 33, 6, 20,
     8, 14, 32, 6, 20, 20, 7, 13, 28, 6, 34, 3, 18, 22, 17, 31, 18, 22, 28, 4,
     11, 24, 38, 20, 7, 7, 1, 5, 24, 4, 6, 13, 12, 37, 4, 22, 14, 26, 37, 6,
     14, 32, 10, 12, 0, 10, 32, 26, 26, 8, 29, 40, 1, 18, 17, 21, 33, 30, 40,
     28, 28, 20, 11, 18, 8, 30, 3, 14, 3, 29, 36, 17, 14, 33, 20, 13, 5, 12,
     30, 0, 5, 35, 23, 13, 25, 16, 9, 13, 33, 35, 7, 36, 11, 31, 9, 32, 32, 32,
     27, 17, 28, 5, 35, 18, 27, 3, 0, 12, 9, 35, 28, 28, 34, 5, 37, 7, 17, 41,
     26, 22, 1, 7, 37, 25, 5, 11, 32, 40, 8, 3, 12, 22, 28, 28, 29, 22, 38, 13,
     25, 3, 20, 23, 39, 29, 26, 18, 24, 9, 32, 33, 22, 23, 24, 34, 2, 25, 17,
     37, 8, 13, 18, 24, 41, 20, 34, 23, 11, 25, 5, 11, 29, 1, 31, 41, 23, 29,
     15, 2, 6, 39, 19, 4, 33, 2, 9, 15, 38, 7, 32, 21, 15, 39, 1, 3, 27, 20,
     31, 4, 22, 4, 20, 15, 27, 6, 22, 38, 8, 20, 17, 37, 2, 19, 41, 41, 20, 3,
     16, 37, 4, 36, 32, 12, 12, 5, 30, 17, 31, 15, 5, 41, 3, 0, 28, 9, 3, 6,
     28, 21, 2, 11, 32, 3, 25, 36, 2, 22, 22, 34, 25, 33, 4, 2, 17, 25, 30, 31,
     1, 16, 24, 16, 0, 22, 15, 29, 39, 36, 0, 11, 7, 12, 39, 23, 4, 28, 7, 40,
     18, 17, 4, 0, 5, 4, 33, 16, 34, 27, 18, 38, 33, 8, 2, 5, 32, 32, 17, 36,
     22, 35, 23, 36, 38, 16, 10, 14, 27, 30, 3, 24, 4, 36, 2, 14, 2, 17, 11,
     16, 12, 21, 24, 2, 12, 6, 8, 18, 28, 38, 28, 12, 35, 39, 38, 26, 24, 31,
     29, 11, 13, 6, 17, 39, 0, 6, 28, 30, 14, 17, 15, 2, 23, 14, 41, 14, 19,
     41, 31, 29, 31, 26, 35, 5, 30, 15, 23, 36, 31, 27, 40, 17, 1, 40, 17, 25,
     34, 32, 8, 8, 30, 17, 26, 30, 28, 30, 13, 26, 40, 0, 41, 15, 11, 28, 9, 9,
     29, 24, 27, 37, 0, 16, 12, 35, 17, 15, 25, 24, 5, 33, 39, 31, 13, 14, 3,
     7, 36, 7, 18, 6, 28, 7, 33, 2, 12, 6, 22, 13, 25, 24, 13, 1, 13, 4, 41,
     20, 34, 35, 24, 11, 24, 34, 10, 11, 27, 30, 0, 26, 20, 27, 32, 1, 0, 7,
     15, 20, 23, 32, 16, 39, 32, 40, 34, 30, 19, 41, 15, 6, 36, 19, 36, 19, 35,
     3, 2, 19, 34, 34, 4, 6, 27, 6, 23, 5, 18, 14, 15, 20, 39, 2, 5, 40, 19,
     20, 22, 25, 0, 38, 29, 30, 39, 4, 21, 9, 10, 1, 27, 32, 38, 32, 25, 39,
     15, 13, 13, 24, 2, 22, 20, 24, 39, 28, 13, 20, 21, 38, 26, 14, 37, 1, 7,
     11, 40, 36, 10, 24, 12, 39, 26, 30, 39, 33, 39, 6, 10, 36, 35, 32, 30, 35,
     19, 4, 30, 10, 25, 23, 16, 27, 16, 4, 36, 35, 11, 23, 5, 30, 19, 16, 39,
     34, 35, 33, 30, 37, 13, 38, 17, 31, 14, 19, 10, 4, 13, 2, 13, 13, 3, 24,
     35, 25, 4, 10, 12, 13, 30, 17, 2, 29, 9, 41, 0, 34, 21, 11, 6, 8, 12, 2,
     36, 9, 2, 20, 5, 14, 36, 36, 39, 27, 36, 19, 25, 25, 40, 38, 41, 39, 9,
     40, 3, 11, 33, 41, 4, 12, 19, 16, 8, 10, 34, 2, 34, 14, 28, 35, 26, 10,
     29, 27, 38, 12, 1, 7, 40, 26, 17, 28, 13, 4, 25, 38, 3, 15, 19, 25, 39,
     35, 40, 19, 17, 31, 9, 17, 7, 4, 33, 0, 29, 34, 39, 34, 33, 40, 16, 9, 4,
     6, 6, 15, 23, 4, 31, 34, 1, 17, 11, 40, 32, 21, 22, 3, 14, 33, 2, 14, 33,
     21, 28, 17, 3, 27, 21, 25, 1, 1, 38, 37, 21, 17, 4, 35, 32, 27, 33, 20,
     35, 7, 2, 23, 23, 24, 9, 16, 5, 34, 35, 27, 40, 26, 39, 33, 37, 15, 3, 6,
     26, 33, 18, 33, 28, 8, 7, 8, 11, 10, 22, 9, 24, 26, 33, 27, 32, 20, 1, 13,
     26, 20, 38, 7, 1, 18, 9, 35, 22, 30, 27, 9, 17, 35, 10, 39, 33, 21, 22,
     21, 30, 26, 34, 22, 37, 3, 33, 36, 33, 4, 21, 5, 27, 24, 29, 27, 22, 31,
     39, 13, 11, 38, 24, 2, 13, 15, 19, 25, 12, 4, 19, 39, 8, 31, 4, 21, 21, 7,
     24, 37, 35, 38, 11, 31, 32, 3, 37, 30, 31, 8, 5, 27, 40, 20, 39, 15, 19,
     10, 31, 41, 13, 37, 10, 0, 5, 3, 17, 30, 3, 24, 10, 14, 33, 36, 28, 31,
     39, 23, 35, 6, 36, 1, 0, 9, 33, 29, 36, 14, 37, 34, 18, 36, 13, 24, 9, 11,
     31, 37, 0, 34, 35, 40, 28, 5, 40, 37, 31, 21, 28, 24, 21, 3, 16, 16, 19,
     34, 12, 4, 8, 23, 16, 40, 5, 21, 33, 12, 37, 34, 17, 31, 17, 32, 14, 23,
     17, 12, 19, 17, 30, 9, 39, 31, 31, 16, 37, 23, 37, 19, 40, 11, 8, 9, 15,
     32, 1, 25, 13, 20, 12, 16, 17, 5, 31, 14, 3, 34, 9, 30, 24, 1, 39, 40, 30,
     3, 29, 8, 19, 20, 10, 34, 5, 20, 25, 31, 36, 23, 40, 2, 14, 33, 9, 17, 18,
     21, 5, 31, 41, 26, 29, 10, 8, 14, 11, 17, 22, 21, 27, 9, 6, 9, 3, 11, 10,
     23, 33, 11, 25, 13, 4, 16, 3, 22, 41, 0, 20, 9, 40, 17, 25, 16, 18, 3, 11,
     35, 18, 30, 11, 33, 26, 41, 13, 9, 10, 19, 35, 34, 4, 29, 6, 28, 20, 22,
     33, 15, 21, 24, 24, 19, 13, 11, 31, 31, 34, 13, 36, 6, 13, 26, 18, 30, 28,
     27, 19, 2, 35, 11, 2, 22, 21, 1, 21, 32, 23, 31, 11, 23, 30, 0, 5, 35, 28,
     30, 12, 18, 20, 0, 5, 7, 2, 10, 1, 15, 8, 21, 12, 22, 25, 33, 25, 17, 28,
     38, 38, 27, 5, 25, 24, 33, 23, 4, 34, 19, 24, 14, 17, 1, 21, 22, 34, 15,
     8, 41, 36, 11, 40, 6, 4, 34, 1, 0, 40, 3, 30, 11, 23, 20, 6, 4, 25, 8, 23,
     7, 33, 24, 37, 12, 6, 40, 25, 7, 8, 7, 29, 32, 12, 9, 6, 37, 28, 1, 35, 3,
     4, 29, 23, 1, 17, 10, 4, 19, 6, 18, 30, 23, 34, 35, 13, 24, 7, 14, 17, 8,
     33, 27, 25, 16, 6, 9, 8, 33, 2, 33, 19, 30, 35, 26, 26, 7, 9, 27, 39, 22,
     0, 35, 38, 5, 16, 29, 18, 19, 33, 33, 21, 28, 12, 24, 26, 10, 1, 34, 15,
     41, 4, 24, 41, 3, 21, 20, 16, 11, 16, 40, 0, 5, 16, 11, 27, 35, 22, 11,
     29, 5, 21, 40, 30, 39, 41, 2, 34, 19, 9, 18, 7, 25, 22, 6, 33, 30, 1, 20,
     32, 26, 24, 38, 17, 29, 35, 1, 16, 6, 37, 22, 33, 2, 24, 7, 20, 12, 23, 4,
     24, 1, 25, 40, 7, 31, 33, 28, 35, 25, 30, 13, 38, 29, 27, 14, 28, 25, 18,
     23, 36, 18, 14, 27, 3, 35, 37, 29, 36, 32, 8, 26, 22, 30, 18, 32, 14, 7,
     1, 9, 31, 36, 30, 14, 35, 19, 40, 32, 3, 8, 40, 7, 2, 16, 30, 21, 3, 33,
     28, 24, 6, 0, 35, 7, 7, 24, 25, 1, 7, 38, 17, 36, 29, 32, 7, 26, 23, 21,
     12, 6, 28, 36, 4, 7, 32, 6, 35, 15, 18, 10, 18, 41, 34, 0, 7, 27, 24, 10,
     9, 7, 3, 7, 34, 24, 38, 3, 3, 27, 33, 2, 24, 16, 10, 15, 4, 25, 21, 13,
     13, 17, 16, 19, 2, 31, 3, 18, 25, 14, 34, 5, 11, 28, 40, 6, 7, 22, 27, 20,
     4, 8, 19, 24, 36, 9, 10, 28, 7, 8, 9, 19, 28, 22, 12, 14, 6, 7, 41, 10,
     26, 22, 36, 39, 7, 2, 7, 27, 27, 5, 15, 7, 11, 6, 32, 3, 41, 19, 12, 41,
     14, 11, 9, 30, 3, 9, 16, 36, 18, 3, 33, 35, 12, 23, 26, 35, 30, 25, 20,
     30, 30, 31, 27, 7, 9, 37, 4, 33, 13, 7, 40, 18, 34, 6, 16, 36, 2, 22, 41,
     7, 26, 28, 27, 40, 13, 14, 9, 7, 38, 34, 25, 3, 10, 8, 22, 12, 28, 17, 8,
     12, 31, 19, 7, 10, 0, 26, 23, 22, 18, 11, 30, 1, 0, 33, 20, 28, 40, 30, 9,
     29, 15, 17, 12, 15, 15, 30, 3, 35, 25, 9, 28, 1, 4, 29, 33, 15, 8, 41, 20,
     30, 7, 7, 15, 2, 26, 34, 4, 30, 23, 34, 29, 32, 0, 7, 36, 32, 11, 30, 14,
     35, 21, 3, 30, 21, 17, 15, 21, 2, 18, 31, 19, 21, 12, 36, 12, 7, 5, 30,
     31, 32, 41, 12, 13, 16, 17, 1, 18, 26, 38, 22, 19, 41, 30, 37, 21, 36, 6,
     34, 7, 33, 29, 13, 20, 22, 39, 21, 29, 8, 8, 8, 35, 39, 0, 3, 18, 24, 21,
     28, 40, 0, 32, 32, 29, 10, 4, 29, 0, 32, 36, 7, 9, 13, 16, 40, 32, 13, 10,
     11, 15, 1, 34, 16, 9, 14, 5, 15, 15, 38, 24, 17, 10, 20, 1, 27, 14, 37,
     38, 2, 15, 4, 30, 35, 31, 29, 12, 31, 8, 15, 40, 36, 33, 4, 17, 27, 34, 6,
     33, 40, 26, 0, 32, 11, 3, 5, 11, 6, 1, 15, 2, 16, 32, 0, 31, 11, 36, 24,
     24, 38, 4, 18, 8, 16, 1, 35, 0, 31, 21, 26, 0, 0, 12, 35, 39, 12, 39, 28,
     17, 32, 12, 15, 35, 41, 28, 15, 0, 1, 25, 11, 11, 35, 27, 18, 16, 12, 36,
     0, 33, 15, 7, 14, 14, 23, 18, 31, 32, 38, 32, 12, 8, 23, 7, 17, 0, 27, 19,
     10, 10, 19, 25, 5, 17, 38, 21, 22, 10, 21, 6, 13, 30, 18, 27, 37, 41, 15,
     34, 13, 30, 41, 7, 29, 17, 17, 17, 7, 3, 13, 17, 6, 9, 21, 8, 37, 7, 0,
     29, 17, 16, 21, 18, 18, 13, 37, 6, 24, 31, 34, 32, 3, 7, 19, 7, 36, 30,
     16, 35, 6, 26, 2, 8, 2, 12, 19, 21, 18, 8, 16, 15, 5, 21, 15, 7, 20, 16,
     10, 17, 22, 20, 7, 36, 21, 28, 18, 17, 12, 5, 22, 41, 1, 31, 21, 24, 21,
     9, 30, 19, 22, 24, 23, 1, 32, 30, 6, 9, 28, 18, 41, 1, 25, 33, 12, 39, 10,
     13, 16, 3, 27, 29, 32, 3, 13, 24, 22, 27, 19, 36, 38, 32, 2, 5, 7, 37, 0,
     16, 40, 39, 34, 22, 14, 30, 25, 28, 23, 21, 15, 36, 2, 26, 26, 24, 7, 17,
     20, 27, 20, 3, 1, 24, 31, 6, 13, 32, 19, 5, 32, 17, 6, 32, 41, 13, 30, 27,
     21, 28, 20, 23, 5, 41, 6, 17, 4, 14, 9, 15, 4, 29, 15, 39, 41, 1, 33, 38,
     35, 11, 25, 37, 37, 36, 37, 30, 39, 38, 36, 14, 4, 4, 27, 3, 33, 40, 28,
     38, 33, 35, 6, 9, 7, 21, 12, 21, 1, 16, 17, 38, 33, 9, 14, 38, 9, 20, 14,
     23, 11, 12, 0, 3, 11, 37, 12, 25, 28, 40, 26, 16, 18, 24, 2, 18, 7, 10,
     11, 33, 28, 26, 39, 10, 35, 19, 40, 27, 25, 31, 14, 36, 36, 32, 29, 0, 0,
     35, 9, 25, 6, 7, 20, 14, 25, 14, 19, 12, 30, 1, 1, 21, 9, 27, 21, 5, 17,
     34, 16, 27, 6, 7, 25, 8, 26, 35, 22, 0, 31, 11, 17, 12, 6, 27, 30, 1, 15,
     30, 35, 40, 0, 4, 1, 2, 39, 9, 3, 11, 26, 38, 37, 37, 32, 33, 8, 20, 5,
     14, 18, 28, 26, 19, 13, 30, 28, 21, 0, 37, 24, 7, 16, 5, 1, 32, 17, 19,
     28, 17, 18, 16, 17, 30, 0, 9, 27, 27, 36, 3, 2, 2, 39, 3, 7, 6, 10, 28,
     13, 28, 29, 39, 10, 26, 21, 4, 5, 10, 13, 7, 19, 8, 20, 27, 33, 16, 0, 40,
     15, 39, 11, 34, 4, 0, 7, 24, 7, 15, 11, 1, 35, 30, 38, 19, 21, 2, 3, 22,
     9, 5, 24, 1, 27, 7, 4, 15, 35, 33, 26, 23, 14, 9, 1, 36, 34, 31, 12, 19,
     32, 37, 40, 15, 17, 31, 7, 8, 9, 38, 35, 34, 4, 37, 39, 0, 41, 8, 10, 13,
     19, 30, 11, 34, 16, 0, 32, 20, 32, 1, 16, 24, 38, 21, 39, 24, 19, 13, 31,
     32, 0, 13, 13, 9, 23, 14, 6, 31, 6, 14, 37, 32, 14, 17, 15, 29, 41, 32, 0,
     1, 15, 39, 24, 16, 35, 21, 31, 23, 10, 29, 8, 4, 25, 0, 19, 11, 16, 17,
     17, 3, 22, 11, 38, 3, 35, 25, 14, 22, 22, 23, 37, 23, 2, 30, 3, 32, 20, 7,
     13, 28, 35, 26, 32, 8, 24, 6, 38, 41, 0, 28, 3, 7, 29, 10, 1, 34, 5, 5,
     37, 40, 30, 12, 25, 24, 34, 26, 27, 3, 23, 30, 4, 6, 8, 10, 32, 4, 19, 8,
     25, 23, 27, 41, 16, 17, 3, 22, 2, 16, 36, 40, 26, 28, 31, 0, 37, 30, 37,
     23, 24, 32, 3, 28, 23, 24, 13, 15, 38, 23, 12, 0, 5, 0, 11, 23, 13, 23,
     22, 10, 29, 19, 19, 20, 41, 34, 10, 14, 9, 13, 16, 8, 21, 35, 25, 24, 17,
     1, 0, 22, 28, 27, 23, 18, 34, 36, 32, 0, 24, 31, 12, 10, 23, 33, 21, 18,
     37, 34, 30, 29, 27, 25, 8, 4, 9, 40, 6, 32, 10, 17, 23, 17, 37, 40, 17,
     19, 24, 18, 41, 26, 25, 7, 3, 2, 11, 8, 12, 24, 29, 38, 29, 26, 12, 35,
     34, 32, 30, 30, 33, 23, 11, 12, 39, 6, 19, 1, 23, 20, 11, 1, 12, 23, 32,
     1, 4, 19, 33, 33, 29, 13, 39, 25, 2, 11, 20, 1, 37, 17, 22, 1, 10, 15, 24,
     21, 28, 7, 21, 16, 25, 30, 14, 15, 23, 34, 26, 31, 30, 24, 26, 6, 26, 30,
     2, 0, 29, 35, 1, 23, 29, 37, 16, 16, 24, 27, 0, 19, 12, 0, 32, 16, 24, 29,
     0, 5, 36, 16, 0, 41, 34, 13, 3, 23, 11, 3, 23, 1, 32, 23, 9, 18, 2, 2, 11,
     15, 17, 26, 33, 12, 9, 19, 20, 28, 16, 3, 31, 2, 30, 2, 35, 9, 4, 32, 5,
     10, 37, 36, 15, 0, 9, 18, 19, 28, 18, 16, 5, 25, 33, 13, 17, 31, 34, 31,
     7, 14, 41, 41, 36, 28, 4, 17, 27, 33, 26, 32, 1, 10, 34, 3, 24, 35, 19,
     25, 40, 37, 0, 5, 27, 12, 2, 11, 40, 34, 23, 37, 24, 3, 17, 20, 15, 30,
     11, 4, 6, 12, 24, 29, 0, 23, 33, 22, 17, 40, 38, 39, 25, 4, 18, 39, 31,
     22, 36, 12, 26, 29, 30, 25, 16, 17, 13, 10, 26, 28, 15, 23, 14, 8, 40, 31,
     29, 0, 28, 15, 21, 39, 10, 6, 29, 22, 3, 16, 37, 16, 37, 20, 36, 29, 32,
     11, 37, 41, 38, 34, 35, 4, 31, 41, 24, 7, 15, 30, 25, 6, 22, 3, 32, 1, 34,
     12, 41, 38, 41, 24, 22, 31, 3, 33, 36, 21, 16, 16, 30, 21, 8, 34, 15, 1,
     27, 21, 28, 22, 26, 16, 1, 9, 12, 21, 19, 17, 4, 17, 12, 35, 32, 0, 33,
     32, 16, 22, 26, 2, 33, 37, 36, 0, 19, 9, 34, 0, 7, 22, 31, 25, 10, 8, 12,
     27, 19, 40, 8, 21, 23, 30, 41, 35, 19, 15, 13, 28, 3, 12, 36, 11, 16, 20,
     33, 25, 17, 15, 23, 3, 32, 33, 25, 5, 10, 30, 11, 38, 27, 37, 4, 2, 18,
     32, 8, 19, 14, 32, 20, 39, 32, 0, 11, 29, 37, 1, 21, 16, 0, 14, 14, 16,
     32, 11, 37, 41, 20, 33, 24, 7, 25, 0, 37, 10, 7, 41, 32, 23, 40, 36, 32,
     7, 33, 4, 12, 11, 36, 30, 8, 5, 24, 28, 9, 39, 11, 34, 18, 13, 35, 40, 20,
     23, 12, 25, 10, 27, 38, 22, 37, 33, 2, 36, 31, 19, 20, 32, 14, 12, 24, 0,
     17, 1, 5, 32, 26, 8, 36, 22, 10, 20, 14, 26, 41, 27, 17, 23, 23, 28, 29,
     22, 19, 24, 10, 17, 4, 18, 27, 19, 22, 36, 24, 0, 32, 12, 16, 40, 35, 13,
     9, 16, 9, 31, 2, 0, 18, 0, 27, 29, 2, 38, 11, 41, 37, 18, 15, 22, 26, 4,
     0, 40, 17, 8, 33, 15, 33, 38, 23, 21, 30, 2, 37, 9, 8, 13, 23, 20, 34, 29,
     20, 10, 37, 12, 24, 29, 22, 31, 3, 5, 10, 30, 19, 3, 7, 35, 35, 13, 9, 23,
     10, 16, 21, 30, 39, 19, 40, 1, 27, 13, 5, 22, 19, 8, 29, 0, 6, 41, 4, 23,
     15, 32, 1, 9, 2, 10, 20, 0, 21, 4, 26, 24, 6, 9, 2, 40, 39, 1, 27, 17, 26,
     35, 7, 30, 41, 22, 27, 20, 39, 20, 22, 23, 17, 8, 12, 32, 3, 16, 0, 39, 2,
     0, 35, 26, 12, 2, 9, 30, 33, 28, 2, 33, 34, 12, 10, 30, 14, 37, 25, 20,
     26, 23, 35, 19, 39, 10, 4, 39, 14, 21, 12, 15, 25, 23, 22, 24, 26, 3, 35,
     9, 20, 17, 8, 40, 11, 1, 5, 15, 6, 21, 40, 13, 41, 1, 21, 31, 39, 28, 37,
     4, 19, 30, 22, 13, 36, 25, 1, 19, 32, 17, 6, 20, 23, 10, 26, 21, 40, 15,
     35, 37, 33, 29, 22, 2, 22, 5, 15, 9, 20, 5, 35, 3, 36, 3, 40, 22, 0, 3,
     41, 2, 26, 1, 41, 34, 17, 22, 11, 19, 28, 36, 40, 27, 8, 39, 31, 29, 6,
     27, 16, 1, 4, 23, 25, 40, 37, 7, 11, 22, 10, 17, 8, 38, 19, 37, 7, 15, 40,
     28, 24, 15, 36, 25, 4, 27, 32, 35, 12, 41, 5, 12, 4, 4, 21, 24, 7, 28, 36,
     29, 8, 26, 40, 17, 39, 30, 19, 8, 19, 3, 36, 21, 23, 34, 6, 21, 32, 13,
     38, 32, 32, 28, 29, 30, 26, 6, 27, 1, 7, 41, 32, 1, 21, 17, 7, 16, 38, 4,
     40, 27, 11, 28, 40, 38, 39, 35, 37, 20, 36, 30, 7, 8, 12, 37, 37, 32, 41,
     1, 2, 15, 16, 35, 3, 15, 8, 40, 15, 9, 20, 3, 15, 15, 18, 21, 6, 4, 28,
     16, 13, 14, 21, 9, 11, 40, 15, 34, 14, 5, 3, 8, 41, 17, 41, 35, 25, 7, 6,
     32, 10, 20, 17, 23, 9, 30, 39, 30, 10, 35, 6, 13, 16, 23, 14, 13, 6, 16,
     28, 31, 40, 26, 24, 1, 32, 18, 9, 41, 0, 19, 38, 9, 10, 5, 29, 27, 27, 29,
     29, 2, 38, 30, 23, 22, 34, 19, 36, 29, 17, 29, 33, 30, 25, 10, 8, 34, 3,
     4, 7, 23, 21, 18, 31, 29, 5, 12, 30, 26, 11, 18, 40, 34, 25, 36, 28, 23,
     21, 13, 32, 18, 22, 32, 40, 34, 18, 24, 4, 26, 34, 40, 26, 8, 8, 10, 28,
     26, 23, 19, 15, 32, 24, 17, 41, 16, 7, 38, 17, 3, 35, 10, 26, 32, 29, 8,
     19, 12, 14, 26, 6, 11, 23, 7, 39, 39, 40, 2, 28, 36, 13, 26, 28, 5, 34,
     16, 2, 38, 26, 11, 37, 12, 35, 25, 16, 7, 19, 24, 3, 6, 22, 5, 17, 0, 28,
     35, 34, 14, 27, 13, 3, 38, 10, 14, 6, 36, 24, 6, 34, 32, 26, 28, 17, 6,
     29, 36, 14, 4, 25, 35, 41, 6, 32, 2, 21, 0, 5, 2, 33, 41, 25, 7, 12, 7,
     14, 21, 26, 14, 14, 3, 0, 12, 36, 36, 39, 21, 11, 18, 4, 19, 12, 5, 14, 3,
     35, 14, 41, 6, 23, 1, 34, 17, 8, 41, 10, 34, 8, 19, 31, 13, 17, 2, 9, 19,
     10, 27, 13, 32, 40, 10, 40, 34, 12, 15, 13, 4, 32, 32, 41, 17, 16, 21, 27,
     37, 37, 10, 13, 29, 15, 24, 29, 18, 30, 28, 19, 35, 27, 10, 41, 30, 32,
     15, 41, 40, 11, 27, 7, 28, 23, 23, 4, 35, 30, 22, 18, 30, 5, 34, 30, 32,
     22, 23, 16, 5, 38, 5, 19, 17, 28, 1, 30, 41, 7, 17, 21, 23, 6, 16, 11, 6,
     8, 19, 20, 9, 30, 8, 1, 1, 2, 23, 28, 37, 37, 21, 29, 34, 11, 9, 4, 17,
     33, 24, 19, 34, 6, 2, 31, 30, 37, 28, 0, 22, 2, 15, 28, 35, 12, 7, 18, 4,
     40, 5, 23, 20, 38, 34, 14, 38, 2, 9, 32, 23, 15, 16, 13, 11, 16, 17, 16,
     12, 27, 31, 8, 41, 6, 0, 36, 15, 6, 9, 22, 16, 7, 4, 41, 29, 29, 5, 17,
     25, 24, 5, 37, 25, 9, 19, 23, 41, 18, 5, 11, 15, 32, 26, 19, 7, 16, 29,
     22, 25, 34, 4, 38, 23, 22, 17, 26, 36, 39, 20, 8, 15, 25, 39, 39, 23, 1,
     35, 41, 18, 29, 25, 26, 33, 17, 11, 12, 6, 29, 32, 11, 20, 25, 23, 20, 3,
     10, 29, 20, 14, 3, 25, 20, 5, 22, 23, 20, 14, 26, 8, 19, 6, 41, 38, 0, 8,
     5, 32, 13, 9, 8, 18, 19, 31, 10, 39, 12, 36, 3, 32, 36, 14, 33, 40, 1, 5,
     31, 15, 17, 38, 21, 4, 35, 22, 4, 10, 26, 37, 8, 40, 16, 7, 11, 29, 17,
     11, 25, 12, 5, 7, 16, 17, 24, 31, 16, 22, 33, 1, 7, 32, 0, 38, 38, 12, 20,
     0, 21, 12, 22, 24, 11, 18, 36, 30, 0, 20, 35, 34, 39, 14, 18, 6, 4, 7, 38,
     26, 5, 2, 37, 10, 6, 7, 3, 2, 25, 25, 9, 32, 32, 39, 0, 17, 23, 14, 41, 2,
     0, 26, 5, 24, 3, 8, 34, 24, 38, 10, 11, 13, 19, 0, 22, 15, 33, 23, 2, 17,
     38, 30, 23, 5, 38, 26, 30, 33, 38, 3, 9, 2, 25, 39, 13, 20, 27, 5, 40, 23,
     23, 22, 1, 11, 1, 31, 15, 37, 5, 2, 1, 7, 23, 24, 29, 19, 7, 21, 8, 23, 8,
     37, 18, 32, 8, 38, 0, 28, 39, 33, 26, 1, 39, 0, 29, 5, 29, 12, 15, 36, 2,
     14, 19, 23, 41, 9, 30, 13, 11, 6, 4, 0, 2, 30, 39, 8, 5, 25, 31, 4, 4, 39,
     14, 5, 11, 10, 26, 35, 15, 41, 19, 6, 7, 21, 21, 17, 8, 3, 24, 5, 21, 34,
     3, 37, 1, 13, 10, 39, 35, 28, 31, 37, 15, 21, 9, 18, 20, 28, 24, 27, 26,
     4, 2, 0, 9, 35, 2, 29, 2, 23, 38, 35, 10, 35, 13, 9, 0, 23, 10, 35, 13,
     17, 10, 1, 0, 14, 26, 7, 10, 2, 10, 29, 4, 20, 23, 24, 27, 9, 30, 28, 31,
     27, 27, 26, 30, 6, 25, 33, 27, 38, 37, 34, 21, 33, 40, 36, 9, 23, 8, 20,
     41, 41, 25, 32, 10, 24, 22, 27, 16, 36, 6, 14, 10, 8, 40, 18, 39, 7, 3, 2,
     3, 3, 41, 23, 29, 4, 23, 21, 26, 17, 12, 39, 33, 1, 13, 13, 13, 16, 3, 7,
     6, 23, 28, 1, 13, 39, 30, 30, 22, 0, 27, 5, 23, 4, 20, 27, 12, 31, 39, 15,
     1, 25, 9, 11, 22, 10, 36, 12, 4, 27, 5, 31, 28, 7, 11, 13, 37, 40, 32, 10,
     40, 11, 8, 20, 1, 37, 7, 30, 4, 12, 41, 23, 32, 13, 3, 20, 25, 13, 10, 35,
     31, 9, 20, 20, 32, 21, 24, 26, 10, 2, 28, 14, 34, 39, 28, 36, 2, 35, 32,
     32, 13, 0, 20, 22, 37, 17, 21, 12, 36, 0, 23, 25, 37, 41, 11, 1, 35, 1,
     13, 37, 26, 20, 27, 17, 10, 1, 32, 20, 11, 18, 20, 17, 21, 22, 13, 19, 15,
     38, 7, 27, 14, 39, 4, 1, 6, 22, 39, 41, 30, 16, 26, 18, 1, 21, 5, 26, 0,
     30, 22, 12, 17, 2, 29, 33, 11, 32, 35, 14, 25, 39, 36, 9, 23, 0, 40, 33,
     23, 22, 27, 30, 23, 32, 30, 23, 28, 38, 34, 9, 16, 34, 32, 29, 9, 36, 41,
     21, 9, 10, 34, 30, 5, 23, 25, 21, 22, 26, 20, 12, 28, 33, 14, 28, 31, 40,
     19, 13, 38, 30, 39, 6, 25, 12, 7, 30, 8, 17, 13, 32, 6, 25, 0, 25, 1, 0,
     22, 32, 10, 35, 3, 1, 6, 15, 21, 12, 28, 17, 0, 33, 3, 13, 6, 32, 34, 33,
     40, 5, 38, 29, 5, 41, 4, 4, 28, 10, 4, 39, 37, 8, 13, 25, 23, 36, 24, 25,
     38, 7, 0, 13, 38, 27, 19, 2, 19, 1, 8, 8, 20, 32, 4, 29, 21, 28, 0, 39, 3,
     16, 5, 28, 12, 10, 5, 34, 8, 10, 33, 16, 29, 32, 36, 22, 9, 34, 24, 23, 6,
     26, 25, 15, 31, 18, 9, 28, 38, 34, 14, 32, 33, 0, 6, 15, 29, 15, 11, 22,
     4, 35, 39, 31, 22, 25, 31, 31, 17, 5, 10, 0, 22, 32, 5, 30, 18, 21, 11, 2,
     38, 36, 19, 2, 23, 16, 22, 17, 2, 36, 3, 8, 31, 23, 29, 11, 18, 27, 28,
     34, 37, 38, 33, 14, 11, 37, 3, 16, 21, 19, 23, 38, 3, 5, 10, 41, 25, 32,
     32, 23, 34, 23, 23, 1, 13, 21, 7, 2, 41, 9, 22, 22, 33, 41, 20, 4, 4, 8,
     3, 5, 37, 41, 6, 19, 31, 33, 5, 25, 10, 41, 28, 7, 31, 1, 1, 11, 30, 41,
     19, 26, 34, 30, 8, 35, 25, 3, 24, 9, 17, 8, 6, 11, 4, 6, 40, 36, 41, 29,
     23, 4, 33, 8, 15, 7, 16, 10, 26, 6, 36, 39, 28, 10, 13, 25, 37, 30, 25,
     36, 33, 29, 7, 20, 35, 16, 2, 3, 29, 30, 9, 10, 34, 33, 7, 19, 7, 9, 35,
     0, 40, 6, 23, 18, 15, 39, 28, 17, 34, 13, 14, 35, 17, 15, 18, 14, 36, 21,
     22, 25, 22, 17, 3, 5, 3, 11, 19, 5, 40, 23, 20, 12, 23, 30, 3, 27, 41, 8,
     10, 13, 26, 27, 41, 37, 23, 33, 22, 27, 22, 19, 5, 34, 4, 17, 4, 32, 37,
     13, 35, 12, 38, 29, 36, 0, 30, 1, 15, 10, 6, 19, 31, 32, 40, 11, 2, 1, 12,
     5, 41, 3, 18, 41, 35, 13, 8, 11, 26, 11, 31, 26, 7, 24, 6, 34, 11, 13, 16,
     12, 4, 19, 5, 19, 22, 36, 27, 2, 2, 37, 13, 26, 40, 7, 39, 30, 13, 28, 18,
     14, 12, 40, 40, 12, 6, 22, 30, 0, 6, 18, 7, 25, 30, 30, 38, 40, 26, 16,
     23, 38, 26, 38, 29, 31, 19, 35, 33, 36, 28, 2, 24, 13, 8, 4, 31, 0, 20, 3,
     17, 39, 25, 21, 7, 14, 38, 37, 28, 14, 37, 37, 33, 30, 31, 11, 35, 6, 12,
     18, 1, 39, 17, 24, 26, 39, 9, 30, 21, 39, 3, 3, 13, 40, 14, 5, 11, 14, 13,
     5, 3, 13, 12, 28, 22, 20, 15, 24, 36, 34, 16, 40, 40, 29, 4, 37, 29, 12,
     32, 0, 32, 15, 13, 23, 37, 21, 9, 19, 15, 33, 1, 4, 39, 23, 41, 26, 3, 38,
     9, 30, 16, 36, 35, 24, 34, 31, 27, 41, 29, 36, 32, 34, 36, 40, 27, 13, 1,
     10, 33, 32, 6, 11, 6, 22, 2, 7, 11, 41, 5, 31, 33, 0, 31, 24, 3, 23, 24,
     33, 22, 15, 41, 30, 8, 34, 41, 34, 19, 15, 38, 38, 36, 28, 19, 18, 35, 20,
     18, 33, 34, 16, 39, 5, 16, 18, 16, 1, 31, 33, 8, 24, 12, 39, 14, 34, 41,
     6, 40, 23, 17, 2, 7, 18, 29, 1, 40, 0, 2, 0, 15, 10, 38, 33, 34, 4, 39,
     13, 28, 18, 13, 6, 41, 24, 12, 32, 32, 11, 11, 30, 13, 19, 3, 18, 23, 38,
     8, 39, 14, 1, 38, 24, 1, 2, 37, 8, 33, 5, 3, 2, 24, 19, 22, 17, 19, 18,
     16, 41, 28, 26, 36, 13, 12, 18, 2, 35, 39, 15, 19, 9, 25, 8, 39, 12, 1,
     32, 14, 20, 21, 6, 38, 9, 22, 16, 41, 11, 14, 7, 29, 35, 3, 24, 34, 31,
     25, 5, 5, 32, 16, 18, 40, 38, 2, 20, 5, 28, 17, 41, 25, 23, 37, 13, 10,
     32, 34, 28, 1, 36, 30, 12, 39, 3, 0, 33, 35, 10, 37, 21, 28, 10, 3, 9, 11,
     27, 41, 22, 16, 22, 4, 29, 27, 26, 27, 5, 38, 18, 14, 14, 13, 37, 3, 23,
     10, 4, 22, 23, 14, 15, 38, 23, 33, 29, 27, 39, 31, 19, 19, 33, 35, 33, 32,
     13, 25, 2, 7, 5, 40, 2, 28, 34, 24, 9, 27, 31, 12, 12, 38, 20, 11, 7, 4,
     10, 1, 10, 31, 6, 39, 1, 30, 41, 1, 4, 18, 1, 31, 11, 16, 6, 31, 33, 11,
     23, 3, 41, 34, 33, 35, 10, 20, 26, 4, 17, 13, 29, 16, 33, 26, 1, 19, 21,
     2, 2, 33, 11, 35, 12, 37, 31, 32, 38, 22, 32, 0, 27, 26, 26, 1, 16, 22, 6,
     8, 37, 3, 29, 9, 15, 12, 35, 37, 21, 1, 7, 35, 31, 25, 21, 15, 20, 20, 21,
     2, 27, 11, 6, 7, 9, 26, 41, 16, 5, 15, 26, 7, 24, 14, 15, 29, 40, 33, 7,
     39, 12, 34, 7, 32, 37, 0, 8, 38, 3, 19, 40, 27, 4, 27, 23, 17, 30, 27, 8,
     30, 23, 8, 25, 19, 15, 14, 27, 32, 16, 7, 41, 36, 13, 4, 26, 35, 7, 28,
     15, 1, 28, 17, 33, 9, 7, 14, 31, 36, 24, 25, 7, 6, 1, 9, 32, 36, 8, 5, 16,
     33, 24, 32, 2, 10, 1, 19, 41, 18, 3, 2, 36, 3, 41, 4, 9, 19, 3, 31, 31,
     11, 6, 39, 29, 16, 0, 9, 20, 22, 11, 39, 8, 6, 26, 13, 38, 35, 19, 20, 12,
     22, 15, 41, 22, 5, 19, 17, 21, 12, 21, 27, 34, 12, 29, 14, 33, 7, 24, 9,
     38, 17, 23, 1, 28, 22, 9, 17, 8, 15, 24, 5, 21, 33, 8, 35, 17, 28, 18, 37,
     32, 33, 33, 13, 13, 34, 20, 16, 11, 10, 27, 29, 25, 6, 25, 25, 37, 7, 36,
     13, 22, 16, 24, 19, 1, 3, 33, 27, 11, 30, 36, 37, 38, 23, 21, 12, 30, 18,
     25, 26, 19, 38, 1, 5, 28, 15, 11, 26, 13, 19, 6, 40, 8, 22, 19, 32, 10,
     22, 18, 9, 19, 9, 14, 11, 22, 28, 31, 31, 7, 41, 38, 2, 14, 31, 17, 28,
     11, 37, 34, 19, 18, 36, 8, 23, 23, 26, 6, 8, 11, 18, 24, 19, 31, 40, 28,
     23, 17, 25, 16, 30, 11, 13, 27, 24, 26, 37, 36, 34, 14, 23, 17, 26, 16,
     32, 29, 29, 38, 30, 22, 13, 2, 20, 30, 41, 0, 22, 39, 4, 16, 25, 29, 15,
     16, 21, 1, 15, 7, 28, 27, 11, 0, 33, 1, 41, 0, 36, 22, 8, 10, 39, 4, 15,
     22, 14, 12, 16, 19, 13, 5, 29, 36, 38, 27, 26, 30, 0, 12, 26, 33, 7, 5,
     25, 22, 22, 20, 35, 4, 9, 24, 34, 24, 16, 14, 14, 8, 39, 32, 37, 14, 16,
     8, 0, 19, 26, 39, 40, 10, 32, 7, 6, 23, 36, 14, 25, 29, 13, 1, 24, 26, 24,
     30, 21, 6, 23, 8, 28, 25, 17, 36, 13, 41, 24, 38, 22, 25, 32, 13, 39, 41,
     7, 3, 40, 9, 0, 25, 30, 31, 32, 3, 20, 12, 36, 27, 19, 17, 14, 14, 26, 22,
     21, 18, 1, 0, 40, 32, 35, 2, 11, 11, 11, 20, 35, 18, 33, 23, 14, 6, 3, 21,
     31, 36, 20, 27, 9, 2, 14, 38, 36, 23, 27, 36, 28, 3, 40, 25, 15, 0, 13,
     29, 2, 30, 3, 16, 21, 1, 3, 35, 40, 6, 34, 25, 39, 40, 22, 37, 6, 27, 39,
     8, 41, 28, 7, 14, 1, 31, 16, 36, 28, 4, 15, 24, 34, 4, 22, 22, 28, 3, 9,
     30, 30, 21, 1, 0, 15, 9, 28, 37, 26, 26, 13, 12, 36, 0, 9, 21, 41, 2, 4,
     11, 19, 0, 10, 24, 21, 14, 25, 5, 6, 11, 39, 17, 13, 31, 35, 6, 38, 34,
     15, 8, 20, 35, 8, 7, 33, 25, 30, 20, 13, 40, 10, 28, 13, 0, 21, 29, 34,
     21, 0, 13, 24, 24, 38, 40, 29, 6, 31, 5, 14, 3, 34, 21, 30, 1, 7, 8, 20,
     6, 4, 23, 4, 40, 32, 41, 32, 12, 34, 8, 5, 13, 29, 4, 37, 2, 32, 28, 21,
     32, 23, 29, 6, 12, 22, 26, 24, 30, 29, 13, 39, 39, 12, 19, 16, 3, 23, 34,
     9, 22, 25, 4, 17, 4, 14, 25, 27, 41, 29, 37, 30, 35, 19, 8, 20, 33, 19, 1,
     41, 0, 11, 21, 25, 17, 40, 39, 12, 9, 15, 14, 19, 10, 7, 12, 19, 6, 28,
     31, 11, 6, 24, 11, 14, 18, 18, 35, 4, 14, 0, 41, 40, 19, 2, 16, 0, 2, 3,
     12, 2, 13, 35, 39, 2, 30, 10, 16, 38, 15, 23, 29, 32, 22, 2, 11, 28, 14,
     22, 29, 19, 9, 30, 17, 31, 16, 11, 35, 34, 19, 15, 18, 25, 9, 26, 18, 19,
     16, 10, 0, 13, 40, 27, 6, 27, 17, 7, 18, 36, 40, 20, 29, 31, 27, 8, 1, 35,
     12, 5, 27, 22, 23, 21, 9, 24, 1, 20, 0, 23, 9, 34, 37, 1, 27, 38, 28, 2,
     26, 2, 6, 27, 28, 1, 24, 36, 26, 27, 9, 27, 6, 35, 10, 34, 1, 24, 13, 12,
     25, 10, 41, 7, 22, 28, 12, 38, 32, 9, 18, 23, 1, 32, 31, 12, 33, 17, 18,
     36, 12, 32, 30, 8, 12, 6, 25, 10, 38, 8, 10, 31, 25, 18, 0, 33, 14, 22,
     13, 8, 37, 20, 30, 34, 16, 27, 3, 2, 25, 41, 39, 40, 24, 18, 30, 25, 36,
     38, 28, 12, 20, 31, 30, 3, 1, 8, 8, 17, 2, 29, 12, 5, 29, 33, 26, 39, 32,
     13, 30, 14, 40, 3, 22, 27, 28, 10, 18, 1, 0, 41, 3, 17, 29, 21, 17, 35,
     35, 7, 36, 1, 4, 4, 14, 13, 0, 8, 22, 15, 36, 10, 4, 0, 19, 32, 11, 3, 11,
     5, 38, 0, 3, 35, 7, 29, 13, 20, 41, 27, 10, 23, 27, 36, 1, 5, 40, 14, 32,
     13, 26, 4, 30, 34, 6, 6, 20, 24, 31, 11, 11, 25, 35, 17, 7, 31, 24, 34,
     39, 3, 33, 26, 34, 1, 34, 39, 9, 13, 30, 0, 14, 0, 23, 17, 23, 0, 21, 34,
     37, 9, 2, 33, 19, 11, 2, 39, 4, 24, 33, 40, 1, 5, 22, 40, 19, 13, 1, 15,
     14, 15, 15, 10, 19, 25, 12, 31, 28, 17, 7, 5, 26, 2, 40, 28, 26, 12, 24,
     9, 24, 16, 37, 40, 32, 34, 33, 41, 4, 33, 38, 21, 36, 33, 1, 33, 20, 25,
     13, 25, 24, 6, 21, 7, 27, 2, 15, 24, 40, 4, 6, 16, 13, 29, 34, 5, 28, 33,
     38, 14, 11, 31, 16, 23, 29, 12, 31, 39, 30, 13, 19, 39, 23, 4, 21, 15, 38,
     23, 7, 1, 38, 6, 27, 17, 15, 30, 18, 7, 12, 16, 24, 34, 19, 39, 14, 16,
     33, 15, 41, 23, 27, 22, 14, 28, 14, 3, 5, 14, 27, 11, 14, 5, 29, 1, 41,
     11, 36, 29, 25, 21, 22, 34, 6, 10, 3, 28, 8, 31, 34, 15, 31, 1, 35, 38, 1,
     19, 22, 16, 3, 27, 30, 39, 6, 38, 34, 2, 24, 41, 27, 0, 33, 9, 26, 11, 39,
     17, 7, 11, 34, 10, 40, 24, 30, 4, 38, 37, 40, 40, 32, 14, 21, 40, 1, 32,
     25, 27, 35, 9, 38, 20, 0, 33, 9, 35, 8, 5, 23, 1, 8, 32, 24, 39, 36, 13,
     41, 12, 36, 29, 0, 29, 18, 2, 38, 24, 37, 36, 36, 35, 1, 10, 11, 20, 10,
     33, 7, 18, 27, 19, 36, 24, 12, 2, 28, 11, 24, 24, 13, 11, 5, 34, 12, 41,
     36, 2, 10, 25, 15, 32, 31, 40, 15, 29, 0, 3, 32, 2, 15, 32, 2, 34, 14, 31,
     41, 28, 16, 37, 11, 9, 19, 14, 37, 15, 39, 24, 2, 17, 4, 26, 21, 23, 25,
     6, 18, 21, 3, 37, 14, 38, 41, 22, 28, 13, 20, 32, 39, 27, 15, 26, 22, 18,
     22, 28, 6, 16, 21, 9, 22, 21, 23, 25, 13, 31, 8, 20, 37, 10, 12, 40, 35,
     2, 14, 21, 10, 28, 16, 27, 23, 2, 38, 14, 0, 38, 38, 1, 39, 10, 1, 8, 4,
     13, 24, 39, 16, 0, 30, 17, 13, 39, 36, 8, 8, 5, 34, 25, 28, 32, 12, 19, 2,
     13, 10, 15, 9, 10, 1, 7, 25, 6, 7, 37, 6, 37, 22, 14, 28, 25, 41, 15, 40,
     23, 34, 21, 8, 14, 8, 39, 17, 30, 0, 39, 17, 2, 8, 1, 18, 2, 24, 14, 1,
     24, 31, 21, 11, 20, 40, 10, 39, 14, 1, 28, 0, 31, 8, 0, 7, 12, 6, 7, 25,
     41, 16, 39, 7, 18, 32, 13, 41, 30, 10, 16, 40, 29, 15, 35, 4, 27, 12, 33,
     23, 27, 36, 19, 13, 28, 36, 10, 8, 33, 20, 19, 41, 21, 8, 13, 20, 24, 20,
     31, 38, 0, 9, 34, 27, 16, 4, 34, 13, 4, 3, 0, 17, 23, 5, 15, 33, 0, 0, 8,
     36, 25, 25, 33, 40, 41, 8, 34, 22, 2, 7, 11, 1, 0, 32, 35, 39, 33, 20, 21,
     12, 2, 41, 38, 31, 11, 15, 30, 39, 19, 35, 20, 29, 37, 31, 28, 32, 35, 3,
     24, 21, 27, 7, 13, 25, 32, 9, 3, 16, 22, 18, 11, 0, 28, 29, 1, 28, 10, 4,
     33, 31, 22, 19, 16, 6, 12, 3, 3, 5, 7, 4, 38, 23, 14, 41, 21, 9, 22, 33,
     36, 34, 14, 6, 30, 30, 25, 28, 26, 20, 6, 41, 13, 8, 28, 2, 3, 13, 40, 16,
     10, 10, 18, 2, 25, 0, 3, 24, 41, 17, 19, 39, 28, 39, 6, 18, 23, 11, 4, 32,
     20, 26, 4, 1, 37, 40, 37, 33, 16, 29, 28, 9, 24, 16, 28, 37, 5, 25, 22, 7,
     23, 2, 32, 7, 16, 34, 12, 28, 5, 16, 23, 34, 15, 4, 34, 1, 23, 23, 14, 18,
     25, 31, 21, 8, 0, 1, 25, 41, 17, 25, 24, 8, 1, 5, 5, 10, 36, 22, 29, 2,
     39, 1, 37, 0, 22, 22, 0, 12, 36, 12, 10, 21, 8, 38, 9, 35, 12, 25, 5, 16,
     26, 4, 30, 8, 26, 7, 37, 30, 11, 33, 37, 31, 25, 34, 24, 41, 18, 1, 34,
     19, 38, 6, 39, 15, 31, 19, 1, 37, 30, 25, 22, 41, 11, 13, 35, 28, 32, 20,
     4, 9, 12, 13, 7, 18, 1, 14, 37, 16, 41, 41, 35, 1, 25, 29, 6, 21, 2, 22,
     3, 35, 3, 40, 5, 22, 2, 11, 35, 6, 9, 38, 34, 10, 5, 38, 14, 13, 30, 20,
     32, 9, 37, 21, 7, 8, 0, 28, 34, 2, 37, 32, 31, 8, 30, 15, 13, 37, 35, 0,
     37, 21, 9, 16, 33, 37, 0, 24, 36, 7, 22, 6, 36, 30, 3, 40, 27, 33, 34, 15,
     6, 36, 9, 37, 6, 38, 15, 19, 31, 2, 1, 23, 2, 27, 0, 4, 18, 30, 24, 17,
     34, 29, 7, 3, 2, 19, 37, 35, 16, 15, 2, 10, 37, 9, 33, 21, 23, 40, 2, 0,
     18, 39, 41, 16, 33, 13, 11, 41, 12, 21, 12, 34, 20, 11, 4, 31, 9, 1, 34,
     13, 16, 12, 18, 9, 41, 8, 33, 0, 17, 20, 21, 15, 15, 0, 35, 40, 34, 1, 38,
     17, 8, 41, 29, 15, 23, 11, 9, 7, 12, 14, 1, 21, 0, 19, 5, 5, 38, 17, 41,
     26, 7, 5, 17, 39, 32, 8, 6, 5, 6, 17, 13, 30, 32, 20, 9, 32, 13, 6, 16,
     34, 13, 25, 8, 38, 24, 2, 34, 16, 39, 31, 33, 13, 27, 15, 21, 35, 0, 6, 3,
     18, 27, 32, 22, 5, 8, 29, 41, 19, 20, 11, 36, 14, 26, 3, 36, 7, 16, 7, 38,
     6, 11, 15, 29, 32, 36, 9, 2, 14, 11, 29, 4, 23, 9, 11, 19, 37, 21, 1, 10,
     4, 40, 14, 35, 27, 37, 16, 36, 9, 26, 41, 1, 4, 15, 9, 38, 23, 8, 5, 3,
     27, 36, 1, 32, 17, 1, 7, 33, 30, 16, 28, 31, 13, 20, 39, 35, 30, 25, 19,
     32, 8, 12, 29, 1, 2, 32, 9, 29, 28, 0, 36, 32, 0, 0, 36, 37, 19, 6, 7, 18,
     28, 23, 31, 2, 32, 11, 33, 34, 11, 34, 0, 40, 33, 21, 34, 32, 16, 22, 26,
     5, 35, 2, 2, 38, 41, 26, 11, 0, 41, 7, 26, 21, 5, 40, 12, 21, 31, 39, 33,
     20, 22, 19, 20, 11, 14, 10, 14, 34, 13, 11, 9, 40, 2, 21, 5, 20, 9, 11,
     25, 16, 3, 14, 39, 19, 35, 11, 41, 40, 41, 40, 21, 7, 41, 2, 34, 31, 2,
     33, 41, 40, 30, 19, 27, 41, 40, 39, 29, 28, 7, 32, 11, 5, 5, 12, 35, 3,
     16, 3, 7, 20, 24, 2, 15, 32, 22, 15, 22, 27, 38, 5, 23, 26, 29, 21, 10, 7,
     40, 30, 11, 19, 20, 41, 3, 38, 8, 31, 29, 31, 4, 0, 34, 29, 24, 34, 39,
     23, 41, 39, 40, 24, 2, 6, 26, 7, 17, 39, 36, 4, 32, 38, 34, 39, 39, 30,
     12, 16, 18, 29, 3, 10, 39, 39, 12, 8, 22, 9, 9, 14, 34, 1, 2, 23, 27, 31,
     40, 24, 28, 14, 14, 0, 40, 21, 4, 4, 5, 24, 30, 6, 15, 26, 9, 25, 13, 26,
     24, 23, 5, 36, 14, 6, 31, 35, 9, 18, 24, 14, 16, 27, 39, 26, 36, 0, 22,
     21, 36, 18, 31, 31, 20, 15, 5, 16, 21, 36, 31, 12, 2, 7, 31, 6, 34, 32, 7,
     13, 19, 21, 32, 3, 4, 4, 29, 16, 4, 33, 5, 34, 34, 8, 25, 15, 13, 33, 12,
     11, 23, 15, 24, 31, 28, 39, 2, 21, 39, 38, 21, 7, 13, 23, 30, 13, 34, 34,
     40, 26, 22, 40, 37, 6, 16, 40, 3, 10, 22, 28, 21, 14, 37, 8, 10, 2, 38,
     32, 10, 14, 23, 10, 34, 28, 7, 13, 6, 10, 3, 38, 18, 34, 34, 5, 35, 2, 39,
     31, 40, 28, 9, 7, 33, 32, 23, 5, 9, 19, 8, 35, 36, 13, 28, 8, 28, 31, 6,
     10, 2, 39, 40, 18, 28, 29, 4, 39, 9, 2, 11, 39, 41, 19, 14, 29, 31, 10,
     38, 16, 7, 9, 35, 38, 26, 7, 8, 34, 30, 39, 21, 7, 6, 18, 23, 41, 26, 40,
     39, 15, 14, 21, 26, 10, 17, 36, 11, 41, 3, 12, 34, 37, 4, 37, 25, 38, 39,
     28, 39, 1, 2, 2, 37, 23, 5, 8, 2, 17, 8, 23, 12, 32, 24, 22, 22, 19, 9, 2,
     17, 5, 0, 8, 40, 6, 21, 28, 9, 9, 30, 13, 41, 25, 1, 1, 26, 17, 3, 37, 40,
     38, 33, 10, 0, 17, 2, 25, 19, 37, 41, 5, 18, 3, 28, 23, 40, 6, 36, 20, 15,
     32, 18, 25, 40, 40, 19, 8, 16, 24, 9, 1, 4, 11, 39, 41, 41, 26, 20, 33,
     25, 23, 12, 40, 41, 41, 32, 41, 22, 16, 31, 1, 17, 30, 22, 1, 21, 36, 5,
     9, 15, 25, 32, 25, 4, 0, 29, 6, 16, 21, 7, 29, 23, 19, 3, 20, 20, 36, 0,
     30, 10, 5, 5, 7, 3, 19, 12, 13, 26, 30, 23, 8, 4, 34, 41, 9, 24, 2, 3, 4,
     31, 30, 16, 41, 6, 32, 16, 31, 0, 9, 23, 1, 13, 8, 4, 34, 8, 40, 36, 4,
     37, 3, 7, 8, 8, 37, 4, 3, 12, 29, 38, 28, 32, 14, 27, 14, 29, 16, 2, 34,
     16, 7, 41, 4, 13, 5, 27, 8, 27, 11, 12, 9, 3, 25, 29, 0, 26, 14, 37, 0,
     17, 24, 26, 41, 14, 19, 18, 33, 10, 2, 3, 30, 37, 36, 35, 13, 27, 13, 10,
     19, 11, 23, 13, 27, 25, 23, 11, 33, 13, 26, 36, 35, 8, 0, 13, 30, 2, 0,
     13, 20, 27, 41, 3, 23, 11, 5, 8, 6, 32, 38, 11, 5, 17, 3, 1, 35, 21, 18,
     16, 29, 24, 21, 9, 21, 29, 14, 0, 40, 28, 39, 6, 37, 11, 31, 37, 37, 34,
     3, 39, 23, 11, 20, 36, 31, 23, 32, 38, 18, 2, 33, 9, 28, 36, 37, 2, 31,
     29, 15, 25, 7, 8, 37, 10, 30, 28, 30, 11, 22, 2, 25, 4, 39, 29, 8, 20, 19,
     2, 25, 8, 14, 3, 5, 27, 19, 0, 28, 31, 9, 31, 21, 9, 4, 30, 7, 29, 36, 25,
     36, 14, 35, 25, 41, 19, 26, 17, 29, 8, 4, 35, 0, 14, 38, 23, 6, 18, 37,
     18, 25, 17, 34, 29, 11, 12, 24, 13, 24, 32, 41, 36, 21, 14, 7, 18, 14, 11,
     29, 34, 36, 40, 37, 8, 18, 41, 22, 24, 8, 24, 13, 2, 12, 40, 36, 28, 21,
     32, 15, 10, 19, 20, 18, 13, 29, 33, 39, 7, 5, 10, 7, 3, 11, 40, 40, 15,
     10, 9, 3, 39, 1, 33, 14, 14, 24, 4, 29, 30, 0, 19, 36, 31, 30, 25, 32, 17,
     14, 35, 5, 7, 17, 28, 33, 1, 7, 0, 30, 37, 4, 39, 40, 23, 32, 8, 25, 26,
     37, 9, 3, 32, 35, 30, 1, 2, 7, 10, 25, 23, 4, 31, 40, 28, 28, 31, 4, 35,
     37, 4, 38, 19, 12, 34, 28, 35, 25, 38, 21, 9, 3, 20, 32, 27, 14, 29, 16,
     21, 9, 19, 15, 11, 29, 28, 15, 6, 15, 36, 2, 7, 28, 9, 35, 6, 13, 32, 23,
     8, 15, 41, 10, 2, 7, 32, 35, 15, 14, 18, 6, 23, 14, 23, 10, 18, 20, 15,
     13, 28, 21, 5, 15, 29, 8, 5, 8, 28, 0, 10, 36, 29, 40, 18, 5, 31, 33, 37,
     28, 4, 0, 19, 32, 6, 5, 39, 31, 17, 18, 37, 31, 1, 23, 25, 12, 29, 24, 23,
     28, 16, 12, 0, 30, 36, 33, 10, 31, 38, 12, 27, 31, 6, 11, 31, 26, 7, 1, 6,
     8, 31, 13, 34, 10, 10, 36, 0, 12, 38, 20, 28, 25, 40, 30, 26, 12, 0, 25,
     12, 31, 35, 31, 31, 40, 27, 19, 38, 21, 11, 5, 6, 4, 7, 7, 24, 0, 40, 11,
     26, 39, 21, 39, 27, 28, 41, 8, 10, 24, 23, 4, 8, 15, 21, 4, 41, 39, 33, 7,
     32, 35, 32, 30, 10, 25, 30, 15, 15, 3, 40, 21, 1, 25, 38, 36, 19, 1, 16,
     37, 11, 9, 16, 30, 23, 27, 6, 29, 29, 36, 15, 41, 40, 0, 33, 28, 3, 40, 2,
     27, 3, 4, 20, 17, 24, 34, 13, 24, 16, 7, 27, 28, 39, 10, 38, 4, 26, 38,
     21, 1, 28, 41, 32, 28, 36, 34, 0, 32, 17, 30, 34, 33, 36, 22, 21, 33, 7,
     17, 14, 22, 16, 9, 39, 29, 17, 37, 40, 23, 12, 27, 19, 40, 37, 1, 0, 7,
     13, 24, 8, 5, 1, 8, 5, 40, 23, 5, 41, 28, 24, 31, 32, 13, 38, 5, 24, 11,
     41, 11, 38, 12, 0, 29, 12, 7, 22, 12, 26, 13, 16, 36, 19, 22, 0, 30, 25,
     25, 28, 33, 36, 41, 27, 23, 5, 9, 41, 24, 35, 38, 20, 19, 13, 28, 39, 34,
     4, 27, 16, 18, 4, 41, 18, 16, 32, 34, 27, 17, 10, 27, 14, 28, 4, 36, 36,
     30, 13, 13, 24, 12, 28, 18, 11, 0, 36, 20, 0, 19, 31, 22, 16, 16, 18, 27,
     41, 33, 4, 39, 12, 16, 40, 24, 1, 36, 38, 7, 10, 36, 41, 12, 11, 37, 41,
     30, 6, 15, 40, 32, 13, 21, 18, 10, 26, 1, 16, 2, 39, 34, 40, 34, 26, 18,
     18, 4, 6, 10, 15, 40, 9, 6, 15, 13, 17, 16, 3, 12, 11, 3, 38, 12, 14, 40,
     29, 1, 33, 9, 13, 37, 36, 15, 27, 41, 18, 27, 41, 37, 34, 7, 13, 24, 13,
     17, 9, 1, 28, 40, 32, 33, 9, 36, 21, 0, 20, 25, 8, 18, 40, 12, 28, 20, 41,
     37, 6, 14, 10, 36, 19, 22, 33, 38, 26, 17, 25, 13, 38, 31, 30, 11, 24, 21,
     10, 6, 25, 35, 41, 24, 5, 33, 15, 5, 24, 22, 32, 14, 6, 12, 7, 37, 15, 21,
     34, 11, 0, 1, 17, 29, 9, 23, 26, 0, 13, 25, 32, 35, 34, 9, 28, 24, 18, 36,
     5, 22, 7, 41, 38, 8, 9, 3, 29, 30, 23, 18, 10, 17, 10, 12, 28, 6, 37, 13,
     39, 33, 36, 36, 18, 10, 39, 19, 39, 33, 17, 9, 41, 14, 3, 41, 12, 19, 35,
     6, 39, 30, 7, 41, 27, 8, 26, 1, 16, 7, 37, 15, 21, 39, 31, 8, 22, 17, 26,
     39, 38, 29, 0, 24, 28, 33, 0, 15, 14, 26, 10, 5, 26, 15, 10, 2, 41, 26,
     10, 12, 0, 33, 15, 6, 37, 8, 4, 32, 32, 1, 7, 29, 4, 30, 27, 13, 36, 38,
     3, 35, 2, 28, 23, 5, 9, 2, 7, 9, 7, 23, 11, 23, 37, 28, 8, 5, 30, 9, 34,
     38, 25, 11, 10, 24, 4, 17, 34, 23, 28, 22, 5, 25, 23, 41, 21, 40, 41, 9,
     22, 35, 32, 18, 41, 5, 23, 2, 19, 1, 4, 16, 38, 18, 4, 37, 39, 24, 20, 24,
     18, 9, 26, 5, 8, 10, 27, 34, 38, 19, 0, 4, 37, 0, 1, 14, 17, 24, 8, 15,
     24, 27, 8, 1, 6, 7, 10, 20, 9, 31, 39, 35, 25, 10, 0, 38, 20, 25, 6, 30,
     16, 9, 30, 3, 14, 38, 5, 17, 0, 34, 2, 0, 7, 11, 24, 22, 12, 26, 37, 29,
     0, 4, 29, 33, 17, 9, 14, 36, 24, 35, 11, 28, 24, 4, 22, 17, 17, 14, 0, 3,
     12, 33, 5, 26, 0, 29, 27, 20, 14, 15, 7, 28, 33, 13, 35, 1, 28, 15, 36,
     16, 20, 21, 7, 22, 17, 21, 18, 20, 28, 0, 3, 8, 12, 2, 7, 7, 5, 13, 9, 40,
     40, 40, 29, 3, 10, 13, 4, 29, 26, 13, 21, 11, 1, 24, 23, 11, 19, 18, 38,
     13, 37, 38, 5, 38, 24, 20, 24, 14, 1, 13, 24, 3, 34, 36, 18, 10, 30, 34,
     27, 13, 33, 5, 14, 17, 1, 26, 32, 17, 26, 32, 31, 40, 10, 39, 22, 32, 15,
     38, 16, 33, 1, 39, 15, 34, 16, 20, 8, 0, 38, 37, 10, 24, 38, 15, 25, 24,
     21, 25, 4, 4, 12, 30, 16, 0, 33, 19, 16, 29, 33, 1, 9, 6, 30, 22, 7, 23,
     14, 0, 39, 39, 39, 29, 33, 6, 28, 2, 14, 30, 21, 40, 12, 28, 16, 38, 21,
     13, 15, 22, 39, 16, 24, 18, 23, 39, 17, 31, 28, 7, 22, 1, 23, 26, 24, 5,
     23, 41, 1, 4, 17, 22, 6, 7, 0, 27, 3, 8, 16, 36, 36, 24, 15, 10, 28, 8,
     20, 32, 23, 39, 30, 24, 23, 41, 22, 19, 16, 34, 26, 31, 12, 26, 33, 29,
     38, 14, 36, 17, 1, 20, 4, 20, 39, 27, 24, 12, 26, 21, 23, 35, 10, 17, 19,
     38, 14, 29, 8, 32, 33, 35, 6, 19, 5, 3, 30, 14, 20, 36, 0, 14, 30, 17, 40,
     13, 18, 41, 8, 17, 1, 9, 24, 27, 24, 30, 23, 37, 4, 40, 38, 37, 14, 40, 8,
     35, 12, 21, 16, 17, 35, 13, 12, 12, 9, 11, 29, 1, 13, 19, 19, 2, 4, 31, 2,
     4, 7, 7, 23, 32, 11, 33, 5, 25, 26, 9, 14, 34, 16, 28, 5, 41, 25, 3, 18,
     37, 9, 12, 7, 9, 14, 33, 11, 17, 23, 15, 37, 24, 38, 0, 23, 7, 21, 8, 32,
     5, 9, 21, 25, 29, 1, 29, 1, 8, 6, 0, 16, 14, 0, 2, 26, 1, 35, 41, 7, 5,
     11, 30, 15, 18, 9, 13, 1, 29, 11, 25, 13, 24, 30, 12, 5, 30, 41, 10, 2,
     29, 15, 38, 5, 6, 21, 41, 19, 17, 7, 37, 41, 5, 21, 33, 25, 9, 34, 22, 6,
     32, 10, 11, 36, 24, 28, 37, 29, 34, 19, 29, 24, 31, 5, 11, 13, 32, 8, 0,
     12, 21, 25, 36, 35, 22, 9, 14, 8, 28, 9, 36, 36, 11, 17, 4, 40, 17, 15,
     25, 26, 41, 30, 29, 32, 39, 14, 6, 4, 39, 18, 19, 37, 10, 18, 12, 8, 34,
     34, 33, 4, 27, 7, 38, 15, 35, 7, 20, 9, 15, 9, 11, 28, 10, 21, 5, 37, 26,
     36, 31, 23, 17, 16, 35, 16, 21, 20, 25, 18, 31, 18, 36, 16, 20, 3, 29, 29,
     26, 14, 40, 18, 23, 25, 38, 26, 4, 14, 18, 24, 39, 33, 21, 11, 2, 27, 21,
     22, 24, 39, 17, 9, 24, 1, 5, 5, 31, 34, 34, 28, 40, 14, 37, 35, 37, 41,
     37, 29, 11, 13, 22, 22, 27, 8, 5, 19, 15, 20, 11, 15, 17, 21, 41, 23, 31,
     7, 2, 6, 5, 17, 31, 14, 11, 23, 8, 38, 7, 16, 31, 3, 13, 20, 13, 24, 13,
     8, 39, 0, 9, 37, 16, 20, 39, 37, 6, 40, 31, 41, 2, 40, 39, 25, 1, 3, 16,
     22, 37, 4, 39, 14, 6, 22, 25, 27, 25, 32, 31, 30, 40, 11, 17, 5, 13, 9,
     12, 4, 25, 14, 21, 9, 28, 28, 40, 18, 15, 1, 20, 27, 36, 37, 17, 31, 10,
     40, 10, 33, 13, 10, 12, 7, 17, 12, 5, 17, 2, 37, 27, 5, 25, 9, 15, 1, 7,
     0, 40, 32, 3, 23, 33, 11, 34, 22, 16, 9, 23, 28, 11, 9, 30, 12, 22, 0, 9,
     10, 37, 7, 40, 8, 4, 9, 35, 17, 6, 28, 26, 8, 30, 28, 16, 11, 39, 9, 39,
     9, 13, 18, 5, 23, 13, 2, 2, 39, 16, 29, 6, 24, 23, 26, 21, 20, 24, 9, 5,
     18, 38, 28, 34, 12, 27, 23, 23, 19, 4, 29, 37, 26, 13, 37, 13, 38, 30, 18,
     36, 14, 26, 8, 10, 23, 40, 4, 26, 11, 14, 21, 15, 27, 12, 28, 17, 28, 3,
     10, 29, 39, 30, 0, 23, 0, 38, 11, 27, 19, 15, 11, 24, 17, 21, 36, 34, 19,
     9, 25, 29, 3, 37, 11, 34, 4, 12, 18, 5, 15, 4, 6, 34, 32, 31, 7, 17, 31,
     41, 29, 10, 39, 11, 10, 17, 6, 0, 3, 34, 30, 27, 17, 1, 8, 40, 24, 0, 21,
     9, 40, 10, 32, 28, 26, 41, 25, 41, 3, 41, 18, 34, 18, 20, 25, 11, 16, 29,
     10, 11, 14, 19, 9, 41, 4, 24, 37, 41, 18, 8, 22, 36, 7, 24, 10, 14, 27,
     40, 0, 2, 36, 27, 19, 10, 3, 17, 36, 36, 15, 26, 16, 2, 9, 20, 2, 3, 37,
     24, 15, 39, 9, 3, 35, 32, 38, 3, 36, 39, 36, 20, 13, 34, 12, 34, 13, 7,
     36, 35, 29, 37, 19, 35, 25, 1, 18, 36, 33, 35, 13, 38, 10, 8, 3, 2, 34,
     28, 17, 24, 17, 37, 27, 9, 15, 28, 24, 30, 10, 1, 9, 41, 11, 37, 27, 21,
     5, 23, 25, 28, 7, 20, 35, 35, 24, 15, 26, 38, 29, 22, 5, 14, 2, 26, 39,
     11, 21, 25, 11, 0, 6, 1, 5, 10, 28, 40, 39, 30, 6, 11, 25, 12, 41, 35, 7,
     41, 41, 5, 25, 12, 20, 25, 5, 16, 30, 6, 3, 9, 19, 25, 10, 37, 10, 23, 5,
     32, 10, 13, 19, 1, 17, 31, 15, 27, 33, 28, 26, 26, 13, 36, 6, 11, 37, 34,
     39, 19, 6, 30, 3, 8, 32, 17, 14, 8, 19, 33, 37, 7, 41, 34, 34, 25, 31, 5,
     39, 25, 40, 9, 3, 33, 31, 4, 33, 24, 34, 20, 38, 32, 33, 5, 18, 3, 21, 34,
     25, 3, 39, 3, 30, 34, 7, 12, 6, 33, 9, 40, 5, 5, 29, 23, 12, 30, 1, 28,
     36, 9, 21, 41, 29, 28, 22, 32, 20, 12, 21, 0, 20, 15, 23, 41, 29, 18, 7,
     39, 2, 6, 31, 40, 39, 8, 38, 13, 33, 8, 31, 20, 11, 26, 4, 34, 23, 41, 38,
     33, 6, 25, 7, 28, 39, 5, 5, 23, 13, 27, 11, 28, 6, 41, 19, 41, 40, 36, 17,
     21, 17, 28, 12, 17, 37, 8, 17, 9, 21, 36, 26, 29, 1, 15, 9, 14, 10, 0, 18,
     28, 11, 25, 17, 37, 29, 19, 31, 21, 23, 31, 26, 19, 32, 30, 29, 5, 0, 5,
     30, 19, 15, 6, 22, 16, 19, 16, 21, 9, 0, 1, 34, 20, 39, 29, 24, 0, 9, 34,
     39, 32, 25, 30, 38, 23, 10, 34, 29, 15, 35, 15, 14, 18, 16, 33, 0, 41, 17,
     24, 36, 34, 4, 13, 14, 5, 23, 38, 35, 38, 19, 12, 14, 28, 26, 12, 0, 35,
     24, 41, 20, 15, 35, 4, 24, 7, 0, 0, 20, 22, 2, 1, 5, 6, 17, 13, 13, 21, 9,
     21, 38, 32, 1, 8, 37, 14, 6, 34, 37, 40, 0, 29, 31, 36, 27, 26, 15, 7, 16,
     3, 18, 15, 37, 23, 29, 6, 18, 15, 27, 14, 34, 27, 20, 9, 7, 21, 5, 14, 15,
     22, 10, 12, 6, 22, 35, 22, 9, 31, 10, 8, 28, 39, 40, 1, 26, 11, 20, 9, 17,
     40, 25, 33, 4, 6, 24, 40, 32, 14, 9, 27, 39, 5, 24, 30, 40, 37, 23, 31,
     26, 39, 35, 38, 40, 22, 25, 23, 16, 9, 25, 10, 36, 38, 0, 6, 5, 4, 3, 37,
     7, 10, 13, 37, 30, 39, 26, 31, 18, 8, 1, 39, 33, 35, 29, 1, 17, 24, 41,
     31, 31, 38, 36, 35, 18, 6, 18, 4, 18, 20, 25, 39, 38, 36, 23, 32, 32, 6,
     32, 16, 22, 3, 31, 14, 14, 0, 26, 25, 31, 23, 34, 37, 21, 33, 31, 17, 10,
     13, 8, 41, 38, 4, 37, 30, 20, 4, 5, 40, 21, 0, 11, 2, 16, 36, 31, 16, 21,
     14, 13, 11, 21, 33, 30, 6, 26, 6, 19, 34, 30, 5, 17, 36, 22, 14, 14, 18,
     5, 30, 33, 24, 5, 37, 15, 40, 40, 15, 28, 36, 34, 7, 23, 33, 34, 2, 15,
     27, 25, 4, 4, 38, 35, 10, 29, 19, 5, 38, 19, 4, 14, 40, 0, 23, 27, 24, 7,
     39, 30, 5, 18, 30, 25, 10, 9, 9, 38, 35, 15, 39, 36, 11, 30, 13, 21, 21,
     30, 18, 9, 30, 15, 5, 8, 1, 1, 34, 0, 3, 5, 36, 36, 6, 12, 41, 21, 16, 24,
     26, 13, 26, 33, 38, 5, 39, 36, 35, 18, 36, 16, 29, 2, 30, 24, 11, 32, 20,
     6, 24, 9, 26, 20, 40, 25, 9, 24, 37, 18, 17, 7, 37, 30, 29, 21, 28, 39,
     24, 41, 26, 27, 6, 34, 17, 33, 18, 25, 12, 4, 14, 23, 15, 15, 14, 16, 16,
     1, 10, 35, 20, 21, 5, 0, 37, 20, 11, 39, 19, 15, 21, 4, 21, 38, 13, 14,
     12, 15, 40, 29, 36, 16, 27, 32, 20, 32, 0, 25, 37, 11, 20, 32, 21, 25, 39,
     35, 11, 1, 31, 3, 17, 15, 39, 17, 11, 26, 35, 0, 0, 41, 29, 7, 15, 13, 39,
     30, 21, 14, 9, 26, 12, 30, 25, 39, 0, 5, 37, 15, 31, 16, 27, 11, 2, 36,
     24, 29, 12, 32, 2, 41, 41, 31, 1, 0, 4, 16, 26, 20, 20, 1, 30, 27, 19, 24,
     22, 29, 31, 28, 15, 2, 23, 13, 0, 18, 5, 24, 19, 33, 41, 17, 38, 41, 21,
     15, 22, 40, 9, 14, 1, 37, 20, 6, 35, 20, 41, 10, 5, 40, 23, 33, 13, 10,
     41, 23, 4, 28, 30, 21, 16, 20, 5, 32, 34, 27, 1, 2, 35, 38, 31, 4, 32, 9,
     21, 23, 16, 14, 0, 33, 17, 13, 26, 38, 15, 36, 9, 10, 40, 37, 19, 23, 9,
     32, 23, 14, 41, 0, 37, 30, 0, 5, 38, 38, 33, 40, 16, 35, 40, 26, 16, 41,
     32, 11, 34, 40, 32, 9, 29, 17, 7, 4, 40, 21, 15, 28, 37, 8, 39, 16, 40,
     25, 39, 19, 29, 31, 4, 38, 32, 6, 27, 32, 2, 2, 19, 16, 10, 29, 19, 10, 5,
     17, 13, 5, 15, 24, 40, 28, 4, 11, 13, 26, 40, 28, 6, 29, 17, 31, 1, 15,
     40, 26, 13, 10, 18, 33, 31, 11, 24, 29, 3, 27, 2, 41, 28, 34, 24, 35, 33,
     23, 34, 28, 9, 5, 28, 36, 6, 40, 35, 37, 20, 9, 5, 15, 33, 24, 8, 35, 11,
     35, 6, 12, 6, 10, 20, 15, 26, 7, 1, 3, 30, 39, 6, 27, 6, 38, 16, 3, 40,
     22, 22, 15, 29, 32, 40, 27, 8, 14, 6, 33, 26, 26, 34, 23, 2, 18, 23, 9,
     16, 9, 32, 11, 20, 7, 23, 31, 14, 33, 15, 12, 8, 19, 25, 1, 3, 28, 5, 13,
     29, 13, 13, 32, 22, 24, 39, 38, 15, 31, 31, 7, 0, 27, 38, 33, 33, 34, 25,
     35, 34, 20, 5, 41, 26, 5, 40, 21, 34, 24, 29, 31, 41, 16, 21, 1, 38, 27,
     24, 36, 2, 8, 41, 38, 11, 35, 9, 16, 30, 25, 27, 7, 9, 12, 18, 11, 14, 38,
     26, 41, 32, 40, 31, 26, 8, 14, 36, 0, 40, 34, 10, 35, 3, 17, 33, 35, 2,
     17, 33, 17, 15, 39, 5, 10, 26, 22, 14, 8, 24, 32, 1, 7, 20, 27, 12, 32, 6,
     6, 14, 20, 38, 25, 32, 31, 24, 20, 19, 5, 28, 27, 35, 27, 2, 6, 15, 14, 6,
     36, 31, 39, 37, 39, 14, 34, 19, 37, 33, 5, 18, 23, 21, 30, 22, 25, 32, 16,
     12, 0, 31, 22, 32, 17, 20, 29, 37, 15, 32, 27, 5, 29, 34, 27, 6, 35, 22,
     32, 24, 40, 8, 39, 33, 24, 40, 1, 1, 2, 1, 14, 14, 2, 27, 12, 38, 10, 25,
     21, 39, 20, 39, 36, 10, 3, 27, 9, 5, 30, 3, 3, 15, 36, 21, 7, 16, 19, 16,
     9, 40, 12, 40, 40, 29, 34, 41, 23, 41, 16, 14, 12, 21, 1, 32, 21, 7, 5,
     31, 14, 26, 33, 17, 37, 14, 23, 30, 2, 27, 39, 2, 0, 2, 4, 5, 36, 33, 8,
     17, 29, 1, 19, 26, 10, 29, 35, 11, 14, 21, 34, 12, 39, 24, 41, 18, 22, 29,
     30, 22, 23, 41, 23, 38, 13, 31, 24, 17, 0, 37, 20, 36, 34, 12, 25, 35, 28,
     34, 19, 7, 3, 36, 6, 26, 13, 25, 19, 11, 8, 4, 22, 12, 32, 33, 15, 31, 31,
     37, 29, 37, 7, 41, 12, 32, 33, 20, 38, 1, 12, 9, 1, 22, 8, 11, 23, 33, 4,
     4, 36, 1, 21, 25, 3, 17, 37, 31, 31, 25, 29, 22, 8, 39, 32, 30, 2, 9, 25,
     29, 18, 23, 4, 37, 15, 21, 2, 16, 24, 7, 33, 32, 40, 24, 7, 16, 32, 17,
     18, 26, 18, 16, 24, 22, 9, 40, 4, 39, 37, 17, 26, 1, 24, 8, 30, 21, 19,
     16, 36, 33, 31, 28, 21, 23, 11, 7, 20, 33, 27, 8, 24, 0, 33, 9, 20, 22,
     33, 1, 6, 27, 8, 36, 33, 38, 37, 20, 39, 13, 33, 30, 12, 40, 5, 29, 10, 6,
     28, 34, 24, 18, 33, 41, 33, 24, 24, 6, 15, 12, 38, 23, 11, 33, 27, 11, 6,
     24, 3, 15, 13, 12, 30, 8, 19, 1, 1, 33, 2, 19, 41, 40, 41, 6, 25, 28, 23,
     3, 24, 19, 41, 28, 40, 28, 21, 36, 31, 41, 21, 28, 37, 34, 14, 36, 4, 0,
     0, 38, 39, 26, 31, 22, 20, 30, 15, 0, 33, 30, 28, 12, 41, 37, 30, 0, 38,
     21, 28, 37, 22, 2, 10, 15, 30, 6, 7, 23, 34, 22, 7, 33, 15, 26, 21, 13,
     11, 29, 16, 26, 10, 38, 40, 31, 22, 12, 11, 40, 39, 29, 36, 15, 24, 20,
     31, 40, 21, 25, 33, 22, 16, 32, 31, 5, 17, 31, 30, 41, 1, 30, 7, 2, 12,
     31, 37, 19, 0, 3, 39, 35, 22, 8, 38, 10, 24, 30, 33, 0, 23, 11, 24, 20, 1,
     41, 32, 28, 38, 24, 7, 40, 2, 2, 26, 13, 23, 13, 16, 29, 26, 39, 14, 17,
     40, 38, 4, 33, 33, 10, 29, 41, 8, 32, 40, 8, 21, 41, 21, 26, 28, 17, 33,
     8, 4, 30, 22, 16, 16, 17, 15, 40, 22, 30, 12, 6, 16, 30, 29, 25, 9, 30, 2,
     11, 12, 3, 26, 24, 13, 36, 38, 10, 22, 37, 9, 4, 27, 33, 4, 28, 30, 9, 12,
     28, 13, 1, 5, 4, 32, 23, 8, 12, 24, 7, 20, 28, 25, 24, 9, 34, 11, 35, 8,
     31, 9, 37, 37, 32, 27, 30, 4, 12, 31, 21, 25, 7, 2, 30, 25, 0, 4, 21, 28,
     34, 7, 40, 38, 0, 16, 36, 1, 32, 25, 34, 36, 27, 34, 24, 2, 21, 28, 35, 7,
     27, 1, 36, 11, 23, 32, 32, 5, 31, 6, 38, 22, 17, 16, 11, 4, 6, 34, 22, 21,
     6, 36, 39, 27, 8, 27, 41, 26, 25, 21, 14, 41, 39, 1, 19, 8, 29, 5, 23, 29,
     24, 12, 21, 28, 33, 14, 23, 15, 4, 23, 8, 13, 20, 38, 40, 40, 11, 19, 3,
     6, 41, 20, 15, 24, 31, 38, 30, 7, 18, 31, 3, 2, 33, 15, 36, 2, 39, 25, 10,
     41, 13, 18, 16, 28, 30, 29, 13, 3, 2, 37, 0, 15, 33, 10, 1, 9, 1, 11, 11,
     20, 11, 9, 40, 27, 9, 21, 27, 35, 0, 26, 8, 10, 29, 5, 38, 30, 11, 8, 29,
     23, 8, 4, 34, 15, 32, 20, 38, 9, 28, 21, 8, 38, 7, 39, 40, 2, 32, 22, 9,
     30, 24, 15, 25, 39, 31, 17, 23, 25, 32, 35, 11, 29, 19, 29, 37, 2, 0, 19,
     3, 15, 16, 9, 1, 4, 18, 14, 0, 25, 34, 19, 41, 30, 21, 35, 24, 13, 26, 22,
     22, 10, 31, 31, 14, 14, 35, 8, 16, 16, 23, 4, 38, 16, 27, 36, 35, 3, 29,
     35, 14, 8, 40, 12, 40, 21, 13, 19, 27, 14, 0, 40, 16, 16, 20, 16, 32, 19,
     24, 26, 6, 32, 35, 6, 18, 29, 41, 26, 37, 31, 14, 12, 10, 33, 19, 0, 32,
     0, 22, 24, 27, 5, 6, 8, 3, 30, 31, 19, 4, 9, 15, 34, 16, 1, 28, 6, 2, 32,
     0, 33, 35, 15, 0, 8, 35, 16, 14, 4, 24, 9, 24, 10, 0, 28, 14, 37, 39, 29,
     10, 35, 16, 18, 19, 38, 18, 1, 37, 14, 12, 17, 23, 1, 4, 14, 35, 14, 30,
     16, 16, 16, 26, 37, 40, 19, 30, 39, 41, 9, 19, 32, 17, 29, 13, 35, 29, 5,
     26, 11, 13, 31, 1, 24, 16, 39, 18, 36, 12, 20, 21, 6, 38, 32, 4, 23, 27,
     31, 9, 39, 25, 13, 20, 32, 32, 15, 7, 2, 32, 32, 26, 38, 14, 21, 29, 9,
     40, 6, 25, 39, 10, 20, 31, 29, 2, 15, 22, 24, 33, 25, 30, 27, 11, 2, 22,
     25, 30, 17, 8, 22, 31, 20, 37, 4, 11, 0, 33, 19, 12, 37, 36, 26, 38, 17,
     24, 17, 38, 30, 22, 3, 37, 21, 14, 29, 21, 19, 30, 1, 28, 21, 31, 39, 34,
     0, 18, 14, 13, 39, 31, 24, 1, 4, 18, 37, 37, 19, 6, 20, 31, 1, 18, 32, 27,
     39, 17, 29, 30, 6, 15, 23, 24, 0, 27, 22, 40, 13, 12, 22, 19, 6, 20, 4,
     22, 24, 32, 17, 38, 8, 31, 23, 10, 0, 6, 3, 20, 28, 20, 27, 29, 28, 1, 32,
     35, 5, 7, 27, 5, 1, 38, 26, 11, 27, 16, 16, 4, 39, 18, 29, 38, 27, 29, 27,
     3, 13, 37, 13, 10, 15, 3, 17, 35, 25, 22, 20, 25, 12, 33, 25, 22, 8, 31,
     38, 16, 11, 31, 5, 5, 38, 4, 2, 38, 41, 14, 29, 23, 8, 23, 17, 1, 14, 41,
     10, 9, 3, 34, 21, 33, 27, 4, 21, 3, 7, 37, 38, 24, 17, 19, 37, 7, 41, 18,
     20, 11, 1, 26, 32, 4, 13, 10, 5, 30, 26, 2, 5, 16, 25, 26, 28, 36, 35, 38,
     27, 35, 19, 12, 18, 2, 7, 18, 2, 11, 27, 37, 28, 10, 17, 30, 6, 41, 11,
     37, 40, 22, 32, 7, 23, 19, 32, 26, 31, 13, 16, 13, 29, 9, 41, 32, 31, 5,
     24, 21, 13, 27, 35, 28, 4, 35, 39, 34, 34, 32, 32, 40, 14, 22, 25, 14, 10,
     13, 14, 1, 39, 19, 1, 24, 35, 41, 1, 24, 34, 7, 39, 32, 20, 15, 9, 29, 10,
     32, 6, 21, 33, 0, 12, 24, 10, 10, 13, 26, 38, 16, 25, 11, 38, 18, 16, 1,
     3, 3, 12, 9, 10, 2, 16, 41, 3, 7, 6, 23, 28, 38, 11, 32, 10, 10, 2, 35,
     11, 24, 4, 22, 38, 11, 25, 7, 13, 14, 11, 16, 18, 3, 21, 7, 24, 29, 15,
     33, 38, 2, 18, 35, 11, 1, 19, 39, 4, 36, 21, 21, 7, 35, 32, 34, 24, 40,
     28, 7, 16, 36, 29, 25, 13, 5, 38, 11, 38, 18, 29, 4, 5, 26, 20, 25, 27,
     13, 21, 1, 36, 6, 7, 5, 0, 35, 32, 11, 12, 27, 29, 6, 34, 34, 28, 1, 2, 4,
     29, 26, 11, 16, 8, 10, 29, 27, 6, 6, 37, 40, 13, 2, 14, 7, 13, 19, 40, 3,
     1, 9, 20, 40, 9, 33, 12, 39, 21, 23, 25, 7, 25, 10, 12, 12, 14, 22, 9, 0,
     5, 2, 28, 15, 21, 15, 27, 38, 31, 9, 15, 6, 38, 15, 23, 0, 28, 33, 20, 22,
     6, 36, 13, 29, 2, 3, 2, 24, 40, 29, 12, 6, 12, 2, 27, 5, 25, 4, 40, 4, 28,
     28, 28, 14, 26, 7, 17, 25, 34, 32, 30, 33, 2, 30, 17, 34, 12, 19, 6, 17,
     38, 8, 7, 17, 31, 7, 37, 1, 19, 3, 7, 25, 39, 1, 25, 6, 19, 35, 4, 24, 36,
     24, 14, 17, 24, 12, 37, 27, 9, 32, 38, 15, 18, 21, 28, 27, 7, 3, 9, 5, 20,
     5, 39, 13, 27, 24, 21, 27, 2, 21, 39, 40, 12, 8, 21, 19, 27, 5, 33, 27,
     24, 24, 28, 37, 27, 31, 38, 1, 4, 15, 9, 34, 15, 27, 27, 3, 33, 27, 25,
     33, 2, 29, 22, 40, 36, 15, 3, 36, 34, 17, 4, 3, 16, 12, 31, 12, 16, 29,
     20, 41, 9, 30, 11, 5, 1, 16, 5, 38, 39, 24, 17, 21, 14, 21, 24, 34, 7, 37,
     17, 37, 11, 28, 7, 32, 5, 17, 8, 41, 22, 7, 17, 3, 11, 5, 36, 35, 21, 29,
     8, 0, 8, 17, 26, 11, 6, 28, 14, 27, 33, 11, 13, 33, 9, 10, 5, 35, 21, 32,
     34, 9, 10, 14, 25, 13, 40, 16, 1, 41, 14, 26, 2, 12, 20, 31, 14, 36, 38,
     36, 24, 24, 12, 4, 1, 14, 29, 22, 19, 38, 16, 22, 10, 16, 8, 29, 29, 17,
     10, 12, 37, 13, 22, 22, 22, 14, 19, 14, 8, 31, 0, 33, 16, 12, 4, 41, 10,
     14, 2, 40, 12, 0, 1, 15, 16, 20, 6, 27, 3, 12, 6, 18, 16, 19, 15, 29, 15,
     4, 15, 23, 12, 18, 29, 20, 11, 5, 19, 28, 12, 2, 17, 36, 27, 31, 22, 1,
     25, 20, 0, 26, 26, 23, 2, 32, 30, 15, 27, 39, 33, 21, 9, 39, 39, 32, 41,
     1, 3, 13, 3, 1, 35, 35, 17, 21, 5, 39, 9, 30, 8, 17, 19, 22, 32, 41, 5,
     26, 28, 23, 16, 25, 16, 8, 4, 5, 10, 40, 10, 12, 25, 21, 22, 25, 1, 9, 37,
     9, 39, 28, 34, 18, 10, 6, 28, 24, 41, 30, 1, 25, 37, 5, 34, 32, 4, 41, 23,
     18, 24, 7, 29, 37, 29, 11, 38, 9, 4, 29, 27, 8, 31, 26, 39, 37, 26, 8, 41,
     12, 17, 6, 40, 18, 24, 37, 7, 29, 6, 6, 38, 17, 14, 8, 6, 21, 25, 0, 15,
     9, 6, 34, 29, 16, 23, 25, 16, 24, 10, 23, 29, 4, 24, 19, 1, 8, 34, 26, 27,
     33, 13, 9, 29, 17, 7, 8, 10, 7, 4, 4, 35, 19, 12, 35, 15, 4, 39, 20, 13,
     2, 33, 33, 41, 39, 19, 14, 14, 30, 7, 15, 5, 9, 33, 7, 17, 20, 25, 6, 27,
     41, 29, 23, 21, 2, 38, 35, 1, 7, 33, 26, 39, 20, 27, 34, 24, 10, 7, 25,
     33, 28, 10, 15, 22, 26, 0, 9, 27, 32, 39, 33, 40, 9, 24, 4, 25, 10, 28,
     30, 20, 1, 18, 3, 23, 35, 38, 5, 24, 8, 36, 25, 3, 32, 11, 23, 14, 36, 29,
     6, 8, 8, 33, 11, 16, 0, 39, 3, 19, 3, 28, 26, 22, 26, 27, 16, 11, 38, 8,
     20, 31, 12, 27, 0, 35, 36, 31, 35, 34, 37, 30, 3, 37, 7, 27, 41, 16, 7,
     41, 23, 9, 9, 24, 22, 1, 12, 37, 3, 32, 28, 2, 17, 19, 38, 22, 22, 16, 36,
     7, 29, 39, 34, 17, 20, 25, 39, 6, 2, 39, 1, 6, 21, 38, 32, 32, 9, 27, 5,
     6, 5, 20, 19, 31, 33, 2, 19, 19, 37, 6, 8, 36, 23, 27, 26, 5, 31, 10, 36,
     18, 15, 37, 29, 18, 20, 39, 36, 13, 36, 5, 30, 33, 13, 30, 24, 5, 35, 14,
     21, 41, 19, 11, 3, 21, 33, 3, 17, 36, 34, 12, 23, 28, 29, 32, 14, 2, 41,
     13, 5, 28, 7, 7, 2, 15, 17, 25, 3, 31, 19, 22, 27, 25, 19, 31, 15, 40, 18,
     11, 26, 35, 36, 2, 18, 31, 40, 38, 0, 25, 31, 26, 25, 2, 28, 30, 11, 32,
     15, 19, 9, 26, 4, 24, 14, 9, 24, 22, 9, 20, 30, 35, 3, 0, 18, 13, 37, 14,
     35, 39, 37, 12, 7, 4, 14, 37, 22, 10, 31, 1, 13, 38, 11, 31, 26, 24, 32,
     24, 13, 14, 5, 32, 1, 8, 10, 26, 38, 24, 1, 38, 34, 18, 2, 40, 20, 24, 28,
     36, 1, 5, 34, 29, 26, 26, 5, 8, 6, 41, 13, 40, 1, 12, 19, 16, 13, 16, 15,
     34, 10, 32, 36, 3, 11, 3, 26, 1, 17, 24, 0, 36, 29, 10, 13, 4, 14, 39, 32,
     9, 28, 40, 2, 5, 22, 31, 5, 39, 11, 24, 13, 36, 22, 25, 7, 41, 4, 30, 34,
     33, 2, 18, 40, 19, 12, 23, 17, 19, 32, 1, 38, 36, 34, 32, 19, 24, 35, 10,
     0, 20, 26, 38, 31, 6, 39, 35, 4, 18, 24, 36, 7, 1, 12, 22, 27, 31, 1, 35,
     39, 21, 10, 37, 20, 33, 25, 38, 37, 16, 10, 3, 31, 23, 39, 24, 18, 25, 6,
     41, 36, 31, 26, 35, 26, 28, 5, 6, 23, 15, 5, 23, 12, 4, 21, 38, 0, 37, 33,
     15, 37, 23, 16, 24, 7, 11, 22, 0, 29, 10, 23, 9, 21, 27, 26, 22, 37, 33,
     11, 12, 22, 24, 6, 25, 16, 41, 37, 14, 0, 6, 19, 6, 19, 11, 9, 6, 10, 27,
     18, 9, 25, 38, 3, 30, 21, 24, 37, 39, 22, 5, 35, 7, 30, 9, 4, 34, 3, 20,
     25, 2, 2, 11, 23, 36, 6, 1, 0, 41, 7, 23, 15, 8, 31, 6, 19, 39, 6, 16, 11,
     28, 30, 35, 21, 34, 16, 40, 14, 2, 0, 23, 14, 15, 18, 24, 15, 20, 10, 34,
     2, 36, 20, 7, 11, 27, 6, 40, 26, 36, 37, 36, 5, 26, 36, 30, 13, 25, 0, 25,
     38, 16, 32, 2, 21, 1, 4, 8, 5, 1, 2, 29, 3, 26, 9, 19, 6, 30, 12, 18, 6,
     0, 22, 0, 2, 10, 41, 23, 19, 6, 25, 19, 29, 25, 6, 19, 1, 26, 4, 31, 25,
     12, 39, 31, 7, 11, 33, 11, 7, 11, 8, 9, 7, 7, 40, 19, 14, 23, 33, 9, 24,
     35, 18, 21, 25, 10, 14, 33, 26, 28, 10, 12, 25, 8, 37, 39, 4, 0, 16, 12,
     4, 32, 39, 21, 38, 40, 10, 33, 27, 13, 36, 7, 22, 19, 5, 13, 14, 27, 20,
     40, 3, 20, 4, 32 >>

\* random.seed(1)
RandomSeed1 ==
  << 5, 35, 32, 10, 20, 18, 27, 33, 3, 1, 35, 18, 32, 0, 18, 30, 9, 39, 37, 1,
     1, 22, 39, 16, 9, 17, 1, 9, 18, 20, 9, 9, 9, 19, 12, 0, 35, 23, 26, 7, 41,
     36, 5, 13, 30, 29, 39, 17, 34, 28, 12, 24, 37, 35, 21, 24, 1, 10, 33, 17,
     7, 23, 29, 28, 15, 18, 21, 32, 21, 16, 20, 1, 1, 29, 41, 24, 16, 7, 21,
     41, 32, 22, 36, 9, 21, 40, 24, 19, 11, 23, 40, 0, 32, 34, 37, 31, 33, 21,
     23, 17, 2, 36, 23, 8, 21, 20, 14, 14, 22, 26, 25, 19, 1, 9, 7, 24, 36, 33,
     33, 34, 10, 35, 28, 3, 0, 0, 31, 10, 4, 26, 14, 2, 6, 22, 7, 11, 29, 19,
     13, 19, 0, 16, 17, 7, 4, 37, 21, 8, 25, 34, 0, 0, 6, 30, 6, 29, 28, 22, 9,
     40, 33, 21, 9, 27, 16, 24, 13, 26, 2, 12, 40, 36, 12, 36, 13, 39, 31, 17,
     10, 0, 36, 1, 34, 40, 23, 7, 36, 40, 29, 21, 15, 14, 8, 28, 18, 8, 4, 27,
     12, 20, 13, 36, 37, 0, 8, 13, 41, 32, 14, 8, 28, 35, 39, 14, 37, 28, 20,
     41, 9, 30, 3, 7, 38, 8, 31, 25, 35, 15, 14, 12, 36, 25, 40, 37, 5, 23, 4,
     1, 3, 36, 33, 34, 14, 25, 32, 15, 23, 9, 3, 11, 37, 23, 38, 19, 11, 33,
     34, 0, 28, 3, 4, 37, 1, 10, 41, 17, 4, 7, 10, 31, 4, 38, 15, 40, 38, 12,
     10, 20, 4, 27, 1, 0, 41, 12, 25, 18, 13, 2, 38, 40, 40, 4, 9, 25, 41, 22,
     28, 27, 10, 22, 12, 10, 3, 11, 41, 18, 27, 27, 39, 16, 12, 13, 13, 35, 37,
     12, 14, 22, 24, 25, 10, 0, 10, 3, 23, 2, 3, 26, 12, 33, 20, 36, 6, 21, 33,
     3, 39, 7, 32, 41, 34, 13, 4, 21, 38, 12, 37, 5, 38, 1, 13, 37, 33, 38, 35,
     31, 28, 7, 18, 6, 30, 28, 10, 2, 40, 33, 23, 22, 35, 19, 16, 14, 10, 1,
     27, 17, 23, 2, 14, 5, 5, 10, 34, 16, 16, 25, 9, 0, 22, 21, 27, 18, 28, 30,
     10, 20, 20, 9, 17, 23, 38, 38, 11, 27, 2, 3, 21, 36, 6, 32, 37, 13, 29,
     35, 15, 29, 30, 24, 35, 37, 40, 23, 7, 10, 9, 23, 31, 2, 28, 30, 14, 21,
     6, 30, 1, 41, 33, 26, 11, 38, 40, 5, 32, 35, 27, 29, 18, 38, 40, 16, 33,
     18, 6, 13, 5, 38, 40, 5, 25, 17, 4, 12, 10, 31, 0, 7, 18, 0, 26, 25, 35,
     8, 11, 22, 11, 24, 10, 28, 33, 33, 40, 22, 20, 35, 32, 23, 16, 11, 4, 33,
     4, 31, 22, 40, 31, 40, 5, 21, 24, 13, 21, 14, 22, 0, 18, 18, 12, 16, 32,
     28, 20, 27, 15, 8, 0, 11, 25, 37, 34, 21, 41, 19, 35, 17, 31, 41, 12, 7,
     26, 22, 15, 0, 16, 17, 17, 36, 24, 30, 37, 31, 20, 31, 26, 27, 26, 17, 26,
     26, 39, 32, 35, 32, 34, 25, 14, 11, 29, 36, 22, 6, 34, 20, 19, 1, 21, 31,
     17, 14, 27, 0, 21, 39, 28, 16, 28, 25, 8, 8, 37, 11, 3, 34, 21, 15, 21,
     30, 7, 27, 29, 34, 11, 25, 9, 23, 7, 33, 36, 13, 9, 40, 29, 35, 1, 37, 26,
     13, 18, 31, 32, 7, 26, 6, 40, 18, 38, 30, 25, 11, 22, 5, 5, 30, 15, 31,
     10, 30, 30, 12, 4, 16, 20, 4, 7, 2, 25, 37, 9, 1, 29, 34, 40, 25, 14, 35,
     4, 29, 3, 16, 20, 15, 7, 9, 34, 19, 24, 8, 30, 13, 24, 38, 41, 1, 33, 36,
     13, 16, 24, 38, 16, 36, 31, 6, 38, 0, 6, 27, 2, 15, 5, 19, 35, 38, 1, 2,
     35, 1, 11, 4, 3, 1, 26, 31, 28, 35, 27, 16, 26, 40, 26, 10, 2, 39, 24, 14,
     25, 23, 21, 2, 14, 17, 8, 36, 17, 27, 29, 31, 30, 31, 10, 41, 6, 38, 35,
     35, 2, 3, 34, 19, 15, 41, 1, 22, 18, 5, 16, 29, 37, 1, 22, 3, 33, 3, 1,
     16, 30, 13, 5, 33, 33, 35, 12, 17, 10, 23, 13, 14, 32, 40, 24, 4, 27, 18,
     41, 30, 35, 29, 22, 37, 34, 12, 6, 15, 21, 4, 14, 24, 1, 34, 27, 13, 12,
     14, 13, 31, 21, 22, 6, 38, 13, 13, 2, 41, 20, 38, 38, 40, 34, 38, 38, 33,
     5, 21, 24, 41, 32, 29, 31, 15, 39, 27, 16, 19, 41, 22, 7, 6, 28, 23, 38,
     7, 17, 30, 2, 4, 22, 11, 4, 10, 26, 22, 3, 3, 35, 27, 7, 36, 0, 15, 35,
     29, 11, 37, 25, 36, 37, 17, 28, 22, 39, 33, 30, 34, 41, 10, 8, 31, 32, 21,
     20, 16, 37, 33, 24, 1, 35, 19, 7, 12, 29, 0, 5, 12, 37, 31, 40, 22, 24,
     23, 22, 22, 34, 40, 17, 26, 12, 12, 21, 24, 23, 41, 6, 26, 41, 30, 23, 15,
     16, 39, 37, 28, 37, 38, 35, 16, 19, 33, 15, 31, 20, 14, 19, 4, 14, 17, 0,
     7, 10, 36, 24, 12, 41, 10, 21, 31, 29, 18, 32, 20, 30, 20, 40, 30, 3, 5,
     40, 9, 1, 10, 20, 39, 16, 30, 35, 3, 25, 41, 23, 22, 14, 39, 40, 4, 23,
     17, 28, 4, 11, 11, 20, 33, 36, 33, 28, 3, 16, 28, 12, 21, 38, 4, 35, 4,
     16, 38, 8, 21, 17, 37, 41, 12, 20, 37, 22, 9, 31, 14, 20, 0, 41, 27, 38,
     40, 11, 22, 18, 31, 35, 9, 11, 29, 17, 5, 8, 23, 25, 40, 22, 25, 6, 17,
     11, 29, 11, 9, 15, 19, 14, 25, 7, 36, 29, 22, 2, 13, 28, 27, 34, 37, 13,
     20, 13, 5, 5, 10, 3, 22, 29, 23, 28, 9, 8, 23, 37, 17, 0, 0, 12, 25, 3, 9,
     28, 41, 14, 25, 21, 0, 13, 5, 10, 32, 28, 1, 3, 30, 4, 13, 11, 2, 1, 5,
     16, 39, 26, 10, 28, 11, 21, 13, 39, 14, 33, 26, 35, 25, 36, 17, 28, 26,
     22, 23, 22, 16, 37, 26, 23, 2, 21, 7, 9, 18, 22, 10, 11, 22, 19, 16, 4,
     15, 27, 22, 22, 35, 30, 28, 1, 12, 28, 6, 38, 5, 36, 9, 35, 35, 14, 37, 6,
     35, 16, 18, 4, 25, 11, 28, 33, 25, 0, 39, 38, 27, 15, 23, 37, 19, 32, 25,
     17, 39, 17, 25, 2, 19, 1, 29, 0, 1, 4, 5, 21, 14, 11, 41, 38, 27, 33, 34,
     10, 33, 10, 23, 15, 6, 32, 38, 13, 36, 14, 27, 41, 32, 2, 18, 15, 12, 34,
     18, 29, 26, 21, 2, 28, 37, 7, 26, 20, 14, 29, 40, 0, 37, 16, 35, 7, 30, 4,
     14, 40, 27, 32, 19, 19, 20, 32, 30, 8, 18, 22, 24, 38, 35, 6, 15, 4, 1, 3,
     7, 32, 28, 33, 12, 6, 40, 34, 39, 0, 16, 26, 30, 38, 22, 16, 0, 33, 41,
     38, 27, 14, 10, 32, 39, 40, 7, 24, 21, 17, 33, 39, 30, 29, 29, 27, 22, 10,
     32, 5, 27, 16, 23, 26, 20, 41, 10, 0, 40, 13, 11, 17, 24, 41, 29, 13, 22,
     18, 21, 17, 7, 16, 16, 8, 34, 15, 6, 23, 35, 32, 26, 30, 14, 5, 10, 14,
     11, 19, 6, 5, 10, 8, 33, 22, 8, 18, 36, 24, 23, 16, 8, 26, 3, 33, 2, 31,
     16, 28, 24, 5, 22, 3, 10, 16, 11, 27, 41, 14, 35, 9, 29, 14, 22, 3, 34, 8,
     19, 12, 34, 24, 25, 31, 10, 2, 34, 13, 34, 40, 26, 4, 35, 26, 10, 8, 21,
     5, 38, 29, 34, 16, 38, 5, 30, 10, 0, 5, 8, 32, 15, 20, 25, 11, 26, 28, 38,
     21, 35, 40, 32, 17, 11, 4, 34, 5, 23, 19, 1, 9, 34, 22, 38, 38, 3, 28, 1,
     17, 18, 40, 25, 7, 21, 21, 8, 15, 36, 41, 32, 2, 38, 19, 35, 7, 6, 38, 11,
     1, 21, 41, 35, 16, 41, 33, 35, 27, 16, 38, 19, 39, 23, 38, 20, 17, 24, 13,
     6, 24, 35, 11, 36, 33, 32, 17, 41, 33, 24, 4, 24, 0, 37, 14, 15, 23, 26,
     24, 20, 26, 35, 18, 21, 34, 0, 6, 13, 8, 37, 6, 4, 13, 21, 34, 41, 35, 25,
     1, 2, 26, 34, 11, 40, 23, 24, 25, 3, 7, 39, 11, 3, 11, 30, 11, 8, 11, 20,
     30, 12, 36, 40, 34, 3, 13, 38, 36, 5, 18, 15, 31, 1, 13, 31, 37, 1, 24,
     27, 36, 17, 40, 8, 4, 5, 24, 5, 11, 8, 2, 40, 14, 40, 30, 9, 39, 0, 41, 1,
     10, 23, 0, 32, 3, 34, 1, 22, 8, 12, 20, 15, 16, 27, 8, 7, 28, 12, 39, 17,
     19, 0, 0, 4, 26, 27, 39, 18, 29, 14, 3, 17, 29, 33, 39, 34, 23, 23, 21,
     20, 28, 24, 36, 18, 19, 34, 28, 22, 23, 33, 25, 10, 13, 25, 1, 19, 37, 9,
     18, 29, 38, 29, 26, 16, 18, 26, 14, 32, 0, 31, 31, 12, 0, 14, 24, 33, 36,
     8, 3, 5, 41, 27, 5, 29, 40, 25, 9, 40, 29, 7, 32, 21, 24, 15, 12, 17, 22,
     19, 36, 3, 8, 39, 25, 25, 26, 10, 16, 8, 6, 41, 31, 36, 0, 29, 12, 20, 28,
     1, 15, 23, 36, 21, 13, 25, 24, 12, 23, 11, 0, 13, 3, 20, 21, 36, 31, 31,
     41, 11, 15, 9, 4, 21, 21, 5, 38, 41, 2, 0, 2, 30, 35, 2, 0, 22, 13, 0, 0,
     8, 8, 12, 23, 10, 9, 8, 37, 10, 23, 19, 13, 17, 0, 7, 26, 31, 9, 7, 38, 4,
     33, 36, 6, 34, 6, 1, 12, 14, 24, 18, 33, 27, 5, 8, 31, 4, 40, 34, 9, 12,
     10, 17, 10, 1, 10, 8, 14, 19, 36, 27, 25, 36, 16, 17, 10, 34, 36, 38, 25,
     4, 3, 33, 37, 22, 38, 39, 31, 15, 19, 14, 16, 19, 0, 5, 7, 23, 36, 29, 6,
     19, 26, 5, 3, 25, 9, 27, 7, 35, 13, 17, 23, 37, 38, 35, 28, 2, 7, 22, 41,
     30, 8, 14, 40, 21, 36, 36, 32, 26, 27, 14, 5, 39, 1, 11, 25, 40, 8, 10,
     35, 13, 16, 15, 2, 39, 29, 0, 4, 5, 15, 37, 5, 9, 13, 21, 37, 22, 37, 22,
     18, 36, 24, 19, 21, 14, 18, 3, 8, 32, 5, 8, 6, 15, 2, 15, 25, 28, 36, 3,
     27, 8, 14, 24, 35, 28, 41, 0, 13, 20, 1, 2, 15, 23, 5, 2, 13, 31, 23, 41,
     25, 37, 24, 20, 17, 3, 2, 27, 36, 0, 7, 13, 13, 35, 10, 12, 20, 39, 12,
     26, 2, 18, 38, 9, 14, 27, 23, 24, 25, 28, 13, 14, 16, 21, 23, 36, 16, 18,
     34, 40, 10, 30, 10, 31, 1, 21, 23, 29, 38, 33, 23, 20, 0, 23, 23, 31, 6,
     24, 2, 30, 34, 18, 28, 27, 12, 3, 31, 14, 6, 18, 34, 40, 23, 40, 7, 20, 0,
     9, 36, 2, 27, 21, 41, 41, 5, 11, 41, 13, 7, 38, 25, 12, 23, 17, 19, 23, 7,
     25, 40, 24, 33, 11, 6, 0, 41, 5, 15, 27, 30, 25, 18, 34, 18, 35, 2, 30, 4,
     16, 18, 7, 18, 35, 1, 8, 40, 18, 16, 38, 32, 7, 25, 7, 32, 23, 33, 2, 38,
     9, 35, 18, 37, 4, 2, 19, 39, 19, 21, 6, 22, 17, 37, 31, 20, 6, 6, 40, 25,
     9, 34, 9, 19, 36, 4, 4, 2, 6, 15, 13, 11, 0, 20, 18, 31, 12, 24, 13, 31,
     7, 20, 18, 19, 22, 22, 13, 34, 39, 23, 26, 30, 13, 24, 19, 20, 16, 22, 9,
     10, 8, 24, 10, 32, 38, 31, 13, 39, 14, 15, 25, 27, 17, 33, 35, 12, 9, 16,
     29, 28, 7, 16, 37, 40, 25, 32, 35, 9, 2, 25, 16, 29, 12, 18, 33, 3, 17, 6,
     22, 30, 41, 31, 6, 18, 22, 26, 29, 40, 39, 8, 6, 40, 6, 40, 5, 24, 5, 5,
     14, 33, 29, 13, 5, 15, 7, 9, 20, 20, 38, 3, 22, 23, 5, 15, 5, 37, 14, 2,
     19, 22, 37, 30, 8, 38, 0, 29, 1, 34, 7, 33, 34, 32, 4, 16, 4, 30, 41, 21,
     27, 28, 5, 15, 14, 31, 17, 15, 23, 8, 2, 9, 0, 28, 19, 25, 23, 2, 34, 34,
     0, 18, 33, 17, 36, 29, 27, 38, 32, 24, 1, 19, 28, 21, 24, 14, 35, 10, 26,
     18, 6, 0, 5, 12, 19, 1, 2, 33, 41, 18, 19, 25, 4, 22, 28, 39, 27, 22, 17,
     38, 21, 20, 30, 18, 2, 24, 36, 15, 4, 4, 38, 4, 27, 3, 21, 38, 9, 12, 25,
     24, 23, 16, 1, 24, 11, 26, 18, 11, 41, 13, 40, 20, 22, 11, 7, 29, 19, 24,
     7, 21, 27, 31, 27, 17, 28, 25, 20, 26, 12, 2, 6, 40, 37, 34, 10, 35, 33,
     22, 12, 4, 41, 41, 35, 18, 30, 38, 22, 5, 41, 22, 32, 26, 2, 19, 0, 11,
     40, 29, 23, 4, 28, 25, 26, 28, 38, 18, 25, 22, 24, 28, 7, 2, 4, 1, 23, 12,
     32, 6, 6, 36, 3, 14, 28, 23, 11, 5, 24, 10, 35, 11, 39, 0, 25, 11, 19, 18,
     33, 7, 32, 1, 26, 34, 18, 35, 14, 14, 38, 41, 33, 9, 39, 15, 36, 13, 9,
     10, 29, 41, 21, 4, 28, 37, 32, 0, 13, 32, 29, 41, 37, 33, 28, 15, 1, 32,
     19, 36, 5, 36, 27, 37, 29, 18, 21, 4, 10, 24, 7, 15, 27, 24, 37, 18, 23,
     17, 31, 26, 39, 5, 5, 12, 25, 26, 8, 11, 25, 11, 34, 4, 32, 6, 29, 32, 39,
     37, 1, 27, 38, 32, 19, 31, 11, 33, 17, 40, 1, 24, 5, 32, 40, 20, 35, 9, 1,
     33, 17, 3, 28, 37, 3, 25, 14, 1, 3, 1, 12, 12, 22, 26, 35, 35, 7, 26, 36,
     10, 25, 41, 26, 29, 13, 41, 34, 13, 12, 0, 20, 36, 32, 6, 10, 6, 10, 8, 6,
     23, 38, 35, 26, 13, 38, 8, 1, 9, 33, 29, 13, 9, 26, 21, 33, 18, 3, 2, 9,
     21, 30, 23, 0, 40, 19, 22, 8, 10, 8, 25, 38, 11, 14, 12, 1, 0, 32, 41, 1,
     3, 18, 12, 10, 36, 8, 8, 38, 26, 28, 28, 1, 41, 1, 9, 19, 35, 39, 0, 5, 0,
     5, 38, 3, 22, 8, 0, 11, 10, 22, 36, 22, 22, 11, 7, 20, 16, 37, 8, 1, 2,
     13, 9, 16, 36, 30, 24, 34, 36, 2, 28, 5, 17, 16, 11, 1, 8, 29, 40, 38, 0,
     23, 8, 21, 22, 6, 3, 20, 2, 35, 37, 0, 33, 35, 1, 24, 19, 7, 34, 23, 34,
     39, 40, 27, 36, 2, 14, 19, 21, 15, 34, 24, 35, 18, 39, 14, 41, 23, 15, 26,
     4, 28, 25, 33, 3, 17, 24, 2, 32, 37, 26, 32, 39, 19, 21, 37, 28, 11, 24,
     32, 35, 5, 7, 28, 30, 30, 20, 16, 40, 10, 12, 1, 3, 26, 27, 9, 31, 7, 15,
     26, 32, 19, 33, 19, 27, 35, 23, 23, 39, 1, 0, 1, 13, 22, 25, 28, 0, 36, 9,
     40, 14, 35, 29, 0, 21, 16, 41, 9, 16, 7, 0, 22, 26, 6, 35, 9, 39, 28, 40,
     18, 35, 25, 30, 17, 21, 11, 14, 38, 3, 34, 31, 6, 18, 35, 21, 21, 21, 7,
     41, 31, 11, 14, 29, 36, 23, 12, 15, 22, 37, 29, 9, 0, 27, 11, 36, 6, 41,
     33, 10, 0, 34, 4, 6, 16, 7, 3, 23, 27, 32, 2, 2, 19, 31, 8, 25, 4, 37, 36,
     39, 16, 3, 34, 18, 14, 17, 29, 30, 18, 11, 6, 2, 40, 40, 2, 24, 40, 24,
     40, 6, 30, 35, 4, 8, 39, 9, 25, 38, 29, 32, 12, 35, 5, 16, 20, 29, 1, 3,
     15, 6, 38, 18, 24, 17, 36, 38, 37, 3, 25, 32, 38, 23, 19, 7, 0, 1, 11, 30,
     16, 22, 11, 40, 38, 11, 16, 4, 16, 10, 30, 13, 28, 1, 29, 26, 12, 32, 36,
     38, 29, 18, 24, 32, 13, 37, 33, 29, 31, 2, 34, 18, 28, 27, 17, 30, 36, 41,
     0, 38, 32, 25, 32, 14, 16, 1, 38, 33, 21, 25, 34, 6, 23, 30, 24, 41, 10,
     28, 32, 16, 39, 17, 6, 7, 16, 41, 38, 37, 27, 21, 26, 25, 40, 16, 16, 30,
     33, 31, 6, 26, 11, 11, 10, 0, 5, 28, 33, 4, 39, 19, 32, 1, 3, 34, 4, 1,
     27, 1, 17, 34, 4, 35, 38, 40, 25, 34, 6, 24, 36, 36, 7, 34, 16, 21, 33,
     28, 13, 35, 39, 33, 2, 0, 24, 4, 3, 36, 1, 11, 12, 39, 39, 32, 19, 4, 40,
     9, 26, 32, 21, 37, 39, 15, 29, 3, 18, 28, 11, 15, 31, 8, 38, 5, 9, 25, 9,
     35, 15, 5, 28, 17, 26, 4, 2, 12, 21, 8, 8, 35, 10, 14, 36, 41, 32, 5, 32,
     3, 33, 11, 9, 17, 5, 28, 34, 27, 33, 6, 11, 35, 13, 31, 23, 6, 9, 38, 37,
     25, 0, 0, 39, 33, 29, 10, 38, 3, 28, 28, 15, 34, 7, 40, 39, 14, 13, 33,
     14, 24, 29, 39, 31, 11, 14, 3, 33, 35, 9, 19, 14, 11, 1, 24, 39, 7, 31,
     32, 22, 35, 17, 26, 2, 6, 24, 35, 19, 39, 20, 17, 32, 38, 37, 27, 9, 12,
     23, 1, 12, 33, 10, 27, 12, 5, 14, 13, 11, 13, 38, 24, 20, 11, 12, 33, 14,
     6, 16, 28, 39, 34, 20, 7, 37, 1, 24, 40, 13, 21, 12, 17, 4, 25, 29, 5, 0,
     10, 14, 18, 29, 21, 1, 0, 18, 7, 33, 31, 33, 25, 8, 33, 12, 6, 1, 16, 40,
     28, 27, 15, 18, 38, 41, 14, 24, 20, 8, 21, 3, 33, 16, 27, 32, 9, 39, 41,
     20, 3, 26, 28, 9, 32, 11, 10, 3, 25, 31, 29, 12, 12, 2, 7, 10, 8, 1, 16,
     0, 21, 0, 16, 4, 6, 29, 3, 32, 28, 26, 22, 30, 9, 17, 0, 0, 17, 25, 40,
     35, 2, 38, 16, 17, 6, 3, 18, 22, 35, 27, 8, 25, 34, 10, 12, 10, 40, 6, 26,
     15, 30, 21, 9, 36, 22, 0, 9, 7, 13, 6, 27, 25, 16, 10, 26, 15, 32, 36, 30,
     39, 12, 35, 17, 36, 25, 12, 11, 35, 20, 6, 24, 5, 2, 10, 32, 8, 36, 1, 14,
     0, 28, 25, 32, 34, 38, 17, 15, 25, 20, 8, 18, 16, 37, 3, 30, 29, 38, 23,
     29, 5, 36, 2, 25, 4, 9, 28, 16, 28, 9, 4, 14, 21, 34, 36, 15, 39, 23, 7,
     21, 28, 32, 5, 40, 23, 0, 11, 34, 2, 13, 28, 5, 30, 24, 11, 34, 3, 8, 32,
     25, 9, 16, 35, 7, 2, 20, 8, 28, 10, 7, 25, 40, 23, 40, 41, 31, 24, 15, 3,
     22, 7, 23, 18, 23, 24, 23, 38, 23, 4, 37, 31, 15, 18, 23, 16, 28, 41, 2,
     38, 41, 36, 19, 27, 19, 15, 6, 8, 20, 11, 8, 25, 11, 34, 3, 9, 17, 8, 35,
     20, 2, 8, 29, 12, 12, 8, 0, 31, 13, 10, 4, 21, 31, 39, 39, 0, 20, 20, 23,
     17, 38, 24, 18, 40, 21, 0, 26, 40, 27, 8, 35, 1, 35, 5, 35, 7, 6, 10, 21,
     29, 21, 2, 39, 35, 15, 1, 17, 40, 40, 7, 8, 41, 14, 29, 39, 34, 33, 25,
     33, 9, 37, 8, 5, 32, 41, 31, 26, 3, 22, 7, 22, 17, 5, 22, 33, 30, 5, 39,
     39, 15, 41, 8, 16, 35, 3, 16, 0, 8, 14, 35, 26, 3, 33, 31, 12, 7, 30, 39,
     9, 13, 13, 40, 2, 0, 7, 19, 40, 1, 33, 22, 37, 40, 30, 10, 38, 0, 41, 17,
     11, 37, 20, 16, 12, 17, 10, 21, 18, 11, 0, 6, 32, 29, 38, 6, 38, 37, 14,
     40, 41, 35, 23, 36, 6, 5, 5, 29, 40, 8, 5, 37, 36, 5, 1, 11, 11, 0, 6, 35,
     2, 19, 30, 29, 12, 5, 17, 15, 18, 12, 19, 40, 0, 9, 35, 20, 32, 3, 41, 0,
     33, 10, 29, 33, 30, 40, 9, 35, 25, 7, 9, 3, 37, 13, 14, 5, 33, 23, 8, 33,
     22, 33, 29, 18, 14, 37, 7, 4, 36, 28, 38, 25, 41, 18, 2, 27, 10, 16, 15,
     13, 21, 25, 2, 37, 14, 30, 14, 5, 13, 9, 12, 28, 28, 8, 29, 25, 6, 24, 2,
     27, 11, 24, 39, 29, 23, 23, 10, 19, 2, 20, 40, 21, 31, 37, 23, 5, 41, 21,
     17, 2, 30, 35, 22, 7, 29, 7, 14, 10, 22, 27, 23, 6, 9, 9, 21, 40, 27, 36,
     3, 1, 22, 9, 13, 30, 3, 36, 17, 24, 1, 2, 28, 1, 26, 13, 12, 40, 36, 12,
     16, 12, 5, 40, 27, 30, 17, 8, 26, 10, 38, 39, 40, 9, 12, 36, 19, 23, 29,
     8, 19, 3, 1, 40, 30, 26, 8, 12, 38, 41, 26, 38, 16, 35, 30, 9, 38, 0, 11,
     20, 39, 14, 4, 30, 28, 5, 28, 16, 17, 39, 34, 41, 29, 16, 15, 5, 2, 21, 6,
     24, 8, 21, 37, 19, 38, 12, 5, 29, 18, 28, 24, 18, 15, 9, 41, 8, 19, 37,
     34, 41, 26, 11, 36, 2, 39, 18, 28, 37, 21, 34, 35, 21, 38, 10, 6, 29, 34,
     17, 1, 18, 9, 3, 6, 25, 15, 33, 9, 25, 11, 11, 6, 31, 11, 28, 28, 23, 27,
     28, 4, 32, 21, 34, 4, 2, 27, 12, 41, 12, 18, 14, 23, 8, 40, 11, 38, 41,
     14, 34, 37, 1, 40, 16, 14, 33, 7, 1, 40, 0, 26, 23, 17, 34, 34, 1, 25, 36,
     16, 5, 24, 0, 16, 20, 9, 24, 34, 19, 22, 7, 0, 19, 10, 26, 4, 19, 21, 32,
     2, 37, 6, 38, 34, 37, 38, 3, 15, 24, 13, 27, 36, 8, 13, 36, 13, 3, 31, 12,
     24, 2, 23, 34, 18, 15, 32, 22, 19, 7, 28, 34, 0, 12, 27, 6, 36, 5, 10, 19,
     5, 38, 21, 16, 25, 31, 22, 27, 28, 18, 11, 5, 27, 15, 40, 11, 32, 18, 6,
     16, 26, 28, 14, 9, 6, 24, 28, 37, 20, 13, 33, 26, 30, 2, 34, 16, 28, 3, 0,
     1, 3, 3, 36, 23, 2, 41, 18, 28, 27, 14, 34, 40, 17, 14, 17, 34, 21, 4, 0,
     27, 6, 32, 25, 8, 2, 28, 6, 41, 21, 13, 33, 25, 27, 33, 18, 1, 6, 41, 26,
     0, 6, 4, 10, 27, 38, 24, 20, 38, 5, 37, 26, 9, 32, 7, 24, 19, 4, 39, 8,
     15, 26, 11, 3, 12, 15, 33, 22, 38, 5, 34, 41, 41, 12, 4, 32, 18, 26, 4,
     40, 16, 40, 0, 12, 19, 15, 8, 41, 23, 39, 21, 33, 26, 5, 29, 31, 30, 20,
     2, 34, 40, 2, 1, 18, 30, 18, 34, 36, 25, 25, 27, 15, 8, 38, 10, 34, 21,
     31, 33, 37, 35, 13, 35, 36, 26, 8, 41, 33, 16, 12, 34, 27, 15, 38, 41, 28,
     34, 25, 12, 33, 29, 37, 14, 39, 29, 31, 35, 19, 35, 37, 40, 25, 2, 10, 8,
     5, 15, 24, 41, 3, 40, 22, 33, 34, 14, 29, 31, 13, 38, 37, 0, 35, 16, 40,
     2, 35, 21, 11, 20, 35, 17, 19, 37, 35, 9, 21, 16, 8, 8, 4, 7, 17, 10, 30,
     3, 10, 40, 23, 7, 34, 0, 12, 5, 17, 19, 38, 20, 37, 40, 1, 4, 34, 12, 19,
     27, 17, 36, 1, 11, 2, 10, 41, 1, 22, 9, 31, 6, 31, 21, 40, 3, 21, 38, 21,
     17, 38, 34, 32, 17, 13, 11, 40, 3, 5, 26, 37, 41, 25, 36, 15, 21, 32, 7,
     29, 17, 1, 14, 31, 33, 28, 30, 15, 13, 16, 18, 13, 37, 29, 6, 5, 20, 26,
     29, 17, 24, 25, 12, 33, 14, 5, 6, 27, 19, 35, 36, 9, 32, 28, 23, 41, 7,
     17, 17, 11, 25, 35, 20, 3, 11, 30, 19, 1, 10, 22, 13, 8, 16, 4, 37, 13,
     19, 21, 18, 38, 6, 20, 6, 2, 29, 14, 31, 20, 1, 3, 1, 24, 16, 12, 12, 18,
     36, 37, 34, 31, 5, 15, 34, 8, 30, 4, 34, 10, 10, 40, 4, 37, 12, 11, 6, 2,
     15, 18, 13, 0, 37, 35, 26, 5, 6, 20, 7, 11, 9, 32, 28, 8, 39, 25, 33, 28,
     19, 19, 17, 2, 39, 14, 2, 4, 16, 30, 20, 13, 38, 2, 11, 37, 19, 19, 3, 25,
     30, 35, 4, 23, 34, 37, 3, 6, 38, 16, 17, 30, 9, 6, 23, 25, 39, 4, 27, 5,
     24, 27, 17, 16, 17, 34, 35, 18, 31, 18, 18, 26, 25, 19, 20, 36, 13, 26, 5,
     41, 1, 32, 6, 27, 0, 13, 1, 17, 26, 0, 23, 16, 36, 16, 1, 10, 36, 20, 16,
     13, 12, 5, 23, 5, 5, 6, 9, 37, 8, 1, 39, 20, 40, 33, 19, 17, 0, 17, 10,
     15, 36, 25, 39, 32, 35, 4, 21, 34, 32, 34, 17, 5, 21, 23, 32, 15, 37, 36,
     31, 31, 41, 3, 14, 18, 17, 28, 18, 15, 1, 2, 20, 13, 9, 0, 3, 7, 19, 9,
     19, 31, 3, 26, 31, 37, 41, 7, 1, 27, 22, 38, 25, 34, 0, 19, 8, 7, 3, 39,
     16, 33, 32, 33, 12, 32, 19, 39, 28, 37, 40, 15, 14, 0, 34, 25, 6, 26, 39,
     38, 41, 14, 10, 0, 6, 10, 26, 0, 39, 27, 36, 11, 21, 38, 4, 3, 6, 8, 7, 1,
     6, 18, 13, 18, 21, 29, 24, 40, 39, 37, 21, 10, 18, 20, 21, 39, 28, 39, 6,
     26, 11, 0, 0, 15, 7, 13, 1, 1, 10, 30, 20, 30, 38, 20, 24, 8, 14, 31, 33,
     6, 8, 19, 18, 25, 36, 10, 3, 3, 13, 15, 5, 34, 15, 10, 11, 37, 26, 33, 5,
     7, 17, 19, 5, 8, 3, 3, 6, 10, 12, 25, 41, 24, 20, 16, 4, 27, 19, 27, 16,
     8, 14, 6, 11, 40, 8, 25, 38, 16, 13, 4, 5, 38, 19, 13, 1, 29, 5, 20, 31,
     33, 36, 10, 6, 4, 13, 14, 8, 5, 17, 17, 5, 34, 3, 16, 16, 16, 25, 21, 25,
     30, 3, 40, 21, 31, 8, 19, 32, 13, 23, 36, 22, 22, 29, 38, 10, 40, 31, 16,
     7, 10, 17, 29, 16, 2, 3, 39, 3, 37, 38, 25, 27, 35, 35, 29, 31, 38, 10,
     17, 31, 28, 16, 41, 1, 7, 6, 14, 39, 41, 32, 17, 39, 13, 22, 30, 14, 29,
     38, 14, 32, 2, 38, 19, 14, 40, 3, 21, 40, 15, 11, 19, 27, 11, 39, 38, 32,
     22, 17, 9, 14, 19, 13, 21, 0, 33, 31, 33, 4, 11, 9, 23, 40, 15, 35, 1, 28,
     16, 14, 27, 35, 39, 17, 21, 19, 2, 23, 31, 38, 8, 23, 33, 8, 11, 17, 28,
     35, 12, 25, 40, 39, 34, 17, 29, 20, 21, 15, 41, 31, 22, 1, 13, 36, 3, 37,
     18, 3, 19, 33, 2, 20, 28, 18, 12, 25, 22, 4, 37, 35, 22, 38, 25, 1, 39,
     27, 6, 0, 31, 15, 5, 28, 23, 34, 25, 18, 13, 41, 39, 2, 41, 31, 10, 32,
     27, 26, 36, 12, 34, 23, 15, 40, 3, 24, 35, 2, 36, 22, 23, 13, 32, 6, 20,
     15, 23, 8, 22, 0, 26, 24, 6, 13, 18, 35, 41, 24, 32, 15, 37, 39, 41, 25,
     3, 9, 9, 25, 14, 18, 32, 4, 1, 9, 27, 10, 38, 22, 23, 21, 2, 26, 24, 29,
     14, 37, 17, 32, 0, 24, 39, 7, 0, 0, 15, 34, 9, 27, 33, 10, 37, 24, 17, 15,
     7, 35, 34, 8, 2, 6, 16, 15, 39, 32, 7, 37, 40, 40, 20, 27, 38, 7, 41, 12,
     14, 10, 29, 30, 9, 9, 41, 33, 11, 34, 29, 18, 39, 30, 11, 38, 15, 32, 20,
     17, 8, 21, 22, 13, 9, 22, 17, 22, 31, 39, 21, 25, 3, 8, 16, 22, 8, 22, 31,
     30, 35, 25, 31, 26, 4, 26, 28, 12, 33, 15, 35, 36, 17, 33, 10, 7, 35, 3,
     28, 31, 20, 10, 1, 16, 16, 19, 8, 11, 9, 6, 14, 36, 36, 22, 28, 25, 24,
     18, 28, 15, 13, 9, 16, 31, 1, 32, 33, 28, 27, 5, 14, 6, 21, 18, 16, 41,
     17, 36, 13, 8, 16, 16, 21, 3, 26, 40, 4, 34, 15, 4, 32, 40, 30, 33, 35,
     34, 19, 20, 3, 31, 38, 40, 39, 19, 31, 16, 35, 7, 2, 8, 11, 7, 20, 31, 22,
     38, 6, 0, 12, 29, 7, 1, 12, 37, 11, 7, 12, 21, 33, 28, 36, 18, 8, 8, 2,
     25, 13, 14, 16, 1, 16, 6, 6, 37, 7, 29, 19, 14, 40, 21, 38, 9, 22, 10, 33,
     2, 10, 39, 22, 19, 14, 41, 40, 20, 20, 5, 17, 7, 23, 15, 36, 28, 33, 29,
     10, 20, 14, 18, 3, 36, 40, 39, 6, 2, 19, 35, 25, 27, 1, 1, 39, 20, 19, 19,
     18, 17, 4, 11, 9, 4, 18, 27, 38, 31, 33, 12, 26, 5, 13, 13, 24, 41, 1, 8,
     19, 30, 35, 9, 0, 39, 4, 17, 10, 5, 29, 21, 15, 14, 38, 36, 2, 35, 6, 9,
     20, 26, 22, 4, 41, 31, 25, 40, 41, 24, 18, 26, 31, 1, 29, 20, 25, 5, 1,
     22, 12, 33, 40, 24, 38, 10, 14, 13, 15, 1, 17, 20, 40, 15, 10, 40, 31, 2,
     10, 12, 32, 12, 38, 29, 36, 35, 28, 22, 38, 8, 24, 21, 12, 23, 9, 27, 6,
     30, 26, 40, 26, 29, 25, 32, 28, 40, 37, 32, 2, 3, 32, 37, 7, 35, 0, 17,
     10, 38, 4, 15, 35, 25, 35, 21, 3, 13, 26, 19, 41, 23, 18, 25, 15, 14, 12,
     16, 40, 15, 35, 17, 17, 38, 29, 13, 5, 38, 13, 32, 37, 15, 15, 3, 31, 5,
     27, 1, 5, 30, 11, 1, 5, 10, 41, 8, 6, 8, 15, 13, 24, 19, 24, 30, 26, 1, 5,
     27, 21, 8, 37, 25, 22, 21, 38, 29, 30, 29, 23, 19, 24, 37, 23, 4, 12, 32,
     9, 8, 7, 31, 31, 37, 26, 34, 9, 26, 20, 28, 38, 6, 40, 26, 4, 18, 28, 40,
     33, 26, 32, 10, 37, 7, 25, 2, 36, 3, 34, 29, 21, 12, 28, 22, 26, 13, 6,
     21, 29, 7, 32, 25, 0, 2, 22, 38, 2, 36, 27, 22, 19, 23, 41, 0, 14, 3, 2,
     7, 24, 24, 8, 28, 39, 20, 14, 36, 38, 20, 4, 36, 22, 7, 38, 4, 12, 37, 26,
     24, 22, 24, 24, 18, 31, 18, 32, 22, 24, 12, 11, 35, 34, 41, 1, 36, 30, 20,
     39, 34, 30, 30, 27, 40, 24, 18, 10, 22, 3, 28, 10, 28, 32, 14, 38, 16, 5,
     40, 13, 17, 3, 24, 40, 18, 16, 23, 32, 25, 31, 5, 35, 41, 0, 27, 2, 18,
     14, 34, 13, 33, 29, 40, 30, 26, 8, 8, 16, 32, 29, 11, 6, 28, 32, 25, 2,
     25, 23, 22, 10, 20, 18, 22, 4, 40, 13, 30, 15, 9, 4, 18, 4, 32, 41, 10,
     21, 12, 0, 25, 28, 16, 18, 21, 18, 19, 10, 31, 33, 24, 2, 5, 16, 4, 11,
     35, 3, 14, 16, 28, 39, 31, 27, 26, 16, 10, 28, 16, 0, 28, 22, 3, 16, 4,
     32, 38, 40, 19, 16, 17, 1, 11, 32, 20, 17, 32, 7, 7, 15, 11, 39, 40, 23,
     17, 6, 41, 12, 27, 24, 1, 21, 12, 20, 39, 31, 32, 31, 16, 29, 20, 34, 32,
     17, 12, 37, 14, 14, 10, 39, 35, 3, 6, 13, 24, 41, 19, 16, 22, 9, 22, 23,
     38, 17, 16, 40, 0, 35, 24, 23, 13, 33, 37, 36, 26, 9, 18, 7, 23, 30, 12,
     37, 19, 32, 22, 37, 36, 26, 10, 2, 35, 13, 27, 25, 9, 32, 6, 34, 2, 14,
     36, 25, 12, 1, 18, 41, 31, 7, 23, 33, 28, 20, 30, 12, 6, 28, 22, 30, 34,
     31, 18, 10, 41, 15, 39, 14, 29, 15, 28, 27, 28, 1, 23, 38, 21, 16, 4, 0,
     0, 7, 4, 15, 21, 16, 18, 25, 21, 11, 20, 7, 27, 41, 27, 3, 39, 6, 9, 12,
     35, 38, 2, 25, 0, 29, 0, 38, 18, 8, 15, 6, 14, 25, 4, 34, 25, 14, 17, 30,
     6, 21, 19, 37, 3, 9, 25, 5, 10, 10, 36, 15, 21, 24, 8, 1, 4, 17, 36, 34,
     21, 9, 2, 7, 33, 27, 18, 22, 11, 31, 37, 33, 22, 12, 9, 22, 13, 23, 31,
     17, 22, 25, 38, 32, 22, 1, 20, 8, 4, 18, 26, 39, 20, 23, 31, 18, 28, 8,
     31, 27, 26, 25, 36, 0, 34, 28, 16, 33, 21, 11, 23, 32, 23, 18, 15, 16, 2,
     2, 14, 30, 19, 19, 1, 40, 8, 13, 38, 12, 39, 30, 10, 29, 6, 37, 24, 28,
     36, 15, 4, 28, 17, 17, 34, 9, 7, 25, 26, 19, 4, 16, 36, 31, 8, 28, 24, 39,
     15, 24, 22, 34, 24, 9, 16, 25, 11, 6, 40, 32, 8, 14, 7, 41, 12, 4, 35, 27,
     0, 12, 6, 24, 25, 23, 5, 27, 8, 26, 33, 30, 25, 7, 27, 8, 40, 37, 4, 24,
     38, 11, 0, 26, 30, 36, 12, 22, 16, 13, 5, 37, 25, 6, 19, 16, 3, 18, 5, 7,
     39, 36, 34, 31, 12, 14, 29, 28, 35, 31, 22, 27, 34, 18, 11, 22, 38, 26, 9,
     27, 33, 27, 33, 2, 31, 39, 36, 29, 2, 27, 2, 41, 1, 14, 35, 7, 7, 7, 34,
     27, 1, 25, 25, 26, 36, 28, 20, 26, 22, 10, 40, 10, 4, 13, 7, 38, 21, 16,
     14, 38, 14, 18, 19, 30, 6, 2, 29, 13, 23, 1, 6, 8, 34, 25, 19, 9, 2, 25,
     6, 19, 24, 37, 0, 1, 26, 3, 29, 16, 37, 33, 28, 34, 14, 4, 16, 13, 25, 8,
     41, 41, 29, 27, 24, 12, 12, 21, 6, 7, 38, 23, 27, 28, 23, 18, 33, 40, 4,
     18, 23, 21, 19, 31, 27, 33, 24, 8, 41, 29, 36, 13, 39, 4, 4, 2, 23, 14,
     37, 4, 37, 2, 13, 18, 34, 19, 5, 22, 4, 24, 39, 3, 17, 21, 3, 14, 39, 7,
     24, 20, 27, 34, 21, 32, 38, 31, 19, 8, 32, 8, 2, 11, 0, 18, 18, 28, 8, 37,
     12, 3, 34, 22, 27, 7, 7, 8, 17, 10, 32, 6, 23, 39, 13, 32, 39, 32, 31, 9,
     26, 2, 9, 28, 17, 0, 1, 28, 25, 33, 18, 30, 39, 6, 15, 35, 31, 23, 35, 41,
     23, 11, 21, 12, 12, 22, 2, 2, 15, 4, 21, 11, 29, 2, 41, 14, 14, 32, 40,
     20, 31, 2, 17, 19, 34, 17, 18, 19, 21, 3, 21, 15, 8, 26, 1, 6, 41, 14, 33,
     40, 35, 33, 3, 35, 10, 41, 0, 28, 18, 11, 14, 30, 3, 31, 11, 17, 39, 41,
     34, 34, 15, 25, 32, 9, 29, 7, 28, 40, 40, 35, 8, 26, 9, 17, 30, 6, 28, 19,
     34, 25, 35, 39, 33, 29, 4, 7, 2, 24, 9, 13, 16, 7, 12, 11, 37, 9, 5, 39,
     5, 39, 14, 25, 24, 37, 22, 3, 18, 14, 22, 22, 40, 21, 11, 21, 13, 6, 4,
     27, 6, 9, 12, 17, 38, 11, 26, 26, 36, 26, 39, 18, 2, 23, 0, 39, 12, 21,
     27, 4, 15, 15, 40, 6, 34, 28, 30, 33, 20, 40, 22, 14, 2, 4, 20, 28, 3, 2,
     30, 3, 0, 24, 41, 25, 40, 9, 30, 23, 17, 24, 29, 6, 28, 35, 2, 1, 38, 27,
     18, 1, 29, 33, 16, 27, 32, 1, 22, 7, 25, 11, 4, 24, 7, 24, 20, 31, 10, 36,
     23, 34, 28, 5, 9, 14, 18, 14, 32, 30, 0, 38, 30, 23, 35, 0, 22, 31, 37,
     12, 39, 26, 41, 23, 37, 24, 21, 36, 29, 23, 20, 19, 14, 17, 28, 4, 34, 33,
     8, 29, 25, 24, 2, 41, 9, 36, 41, 33, 15, 2, 2, 32, 36, 37, 31, 11, 36, 24,
     29, 4, 35, 14, 19, 30, 17, 29, 37, 39, 1, 31, 41, 36, 28, 7, 3, 25, 31,
     25, 1, 8, 35, 2, 16, 11, 17, 38, 37, 18, 2, 8, 1, 17, 35, 18, 7, 8, 3, 29,
     15, 38, 28, 22, 23, 0, 11, 15, 1, 41, 17, 15, 28, 34, 19, 29, 31, 4, 30,
     32, 36, 8, 14, 18, 29, 32, 2, 3, 13, 39, 33, 15, 3, 12, 18, 6, 24, 22, 8,
     40, 13, 25, 24, 17, 41, 27, 15, 23, 15, 11, 14, 35, 5, 22, 12, 36, 3, 20,
     14, 16, 34, 27, 3, 40, 38, 2, 6, 24, 40, 7, 2, 16, 8, 16, 14, 24, 7, 17,
     39, 9, 31, 15, 25, 0, 33, 29, 12, 32, 11, 38, 8, 32, 1, 32, 4, 28, 2, 27,
     20, 20, 25, 9, 28, 17, 2, 41, 39, 1, 21, 27, 8, 26, 6, 8, 0, 26, 41, 17,
     15, 14, 6, 13, 28, 26, 13, 19, 36, 6, 38, 30, 20, 38, 36, 7, 26, 17, 34,
     4, 21, 1, 31, 9, 23, 29, 34, 17, 14, 38, 38, 16, 37, 38, 11, 35, 0, 18, 2,
     23, 33, 29, 23, 1, 7, 40, 27, 19, 0, 23, 35, 9, 22, 21, 27, 24, 34, 40,
     29, 29, 20, 14, 30, 8, 10, 27, 37, 6, 12, 3, 8, 39, 3, 31, 32, 10, 15, 5,
     24, 10, 3, 22, 7, 2, 22, 1, 41, 23, 24, 20, 17, 24, 4, 29, 36, 21, 31, 31,
     27, 10, 31, 11, 33, 12, 21, 21, 25, 4, 2, 37, 13, 41, 26, 15, 24, 29, 41,
     36, 37, 41, 31, 21, 9, 36, 10, 17, 27, 7, 4, 30, 18, 30, 31, 41, 14, 5,
     13, 40, 6, 30, 18, 33, 36, 20, 23, 13, 4, 4, 10, 10, 39, 1, 35, 2, 41, 28,
     12, 26, 30, 34, 6, 38, 31, 38, 2, 39, 32, 7, 32, 29, 18, 28, 11, 6, 17,
     35, 7, 10, 19, 25, 38, 25, 11, 13, 28, 38, 39, 24, 11, 35, 8, 37, 11, 5,
     1, 18, 14, 30, 36, 17, 39, 41, 15, 7, 2, 11, 14, 41, 12, 6, 39, 25, 27,
     34, 19, 32, 25, 3, 0, 32, 0, 32, 15, 38, 1, 2, 38, 8, 32, 8, 24, 8, 22,
     30, 23, 36, 13, 22, 26, 38, 27, 0, 20, 0, 13, 37, 15, 17, 38, 29, 4, 41,
     27, 36, 34, 41, 6, 2, 0, 21, 0, 31, 5, 33, 12, 19, 2, 6, 0, 25, 1, 4, 16,
     40, 22, 24, 12, 0, 0, 22, 41, 26, 11, 15, 40, 8, 37, 18, 30, 21, 2, 5, 33,
     26, 27, 39, 35, 16, 39, 20, 25, 6, 29, 10, 2, 22, 3, 39, 41, 31, 6, 20,
     15, 37, 32, 12, 36, 7, 12, 1, 10, 31, 3, 12, 34, 4, 39, 9, 32, 15, 18, 13,
     22, 18, 18, 22, 4, 25, 10, 19, 15, 4, 14, 26, 0, 7, 38, 18, 1, 30, 28, 25,
     1, 41, 1, 27, 18, 35, 22, 19, 29, 3, 30, 38, 17, 20, 18, 16, 26, 23, 30,
     26, 4, 32, 22, 6, 39, 9, 31, 14, 30, 26, 4, 25, 27, 20, 39, 1, 27, 4, 20,
     6, 36, 14, 13, 7, 24, 8, 26, 22, 4, 6, 5, 1, 28, 21, 26, 24, 34, 28, 39,
     28, 30, 23, 4, 23, 10, 17, 25, 6, 13, 33, 36, 31, 7, 15, 35, 35, 27, 37,
     37, 33, 38, 17, 36, 6, 24, 26, 20, 11, 26, 21, 23, 31, 21, 20, 31, 36, 31,
     35, 29, 41, 10, 5, 7, 29, 3, 2, 38, 23, 2, 20, 19, 1, 20, 11, 30, 20, 35,
     13, 26, 35, 39, 9, 41, 2, 40, 30, 12, 33, 4, 32, 5, 15, 6, 31, 40, 4, 41,
     8, 9, 26, 1, 13, 36, 15, 15, 25, 29, 31, 19, 28, 13, 32, 0, 21, 5, 0, 34,
     10, 31, 41, 28, 30, 41, 26, 40, 15, 37, 22, 41, 8, 9, 13, 32, 30, 33, 11,
     16, 13, 34, 8, 28, 19, 6, 15, 13, 9, 19, 30, 40, 40, 14, 34, 37, 14, 18,
     28, 29, 28, 20, 28, 2, 19, 3, 38, 40, 6, 8, 6, 12, 16, 39, 7, 25, 0, 26,
     31, 11, 23, 3, 37, 16, 23, 41, 1, 8, 19, 41, 9, 13, 20, 21, 29, 11, 6, 16,
     36, 36, 34, 9, 17, 18, 30, 16, 0, 7, 14, 4, 1, 19, 8, 28, 13, 28, 21, 8,
     33, 37, 22, 24, 10, 40, 6, 0, 31, 33, 24, 9, 7, 5, 7, 16, 24, 0, 24, 35,
     34, 38, 31, 9, 3, 31, 19, 37, 7, 39, 40, 0, 17, 35, 24, 24, 7, 4, 24, 34,
     29, 8, 21, 0, 34, 39, 31, 22, 8, 20, 16, 25, 30, 40, 15, 19, 19, 2, 13,
     29, 10, 5, 16, 9, 12, 15, 37, 11, 30, 6, 22, 25, 20, 17, 30, 0, 26, 12, 2,
     18, 17, 1, 11, 10, 6, 29, 16, 22, 29, 31, 32, 15, 20, 25, 17, 4, 3, 7, 0,
     39, 3, 22, 23, 7, 22, 23, 38, 7, 41, 3, 4, 0, 32, 15, 30, 24, 5, 9, 13,
     40, 37, 22, 26, 22, 39, 18, 24, 38, 6, 2, 39, 8, 20, 39, 8, 16, 14, 21,
     36, 35, 9, 8, 26, 0, 6, 20, 30, 20, 11, 5, 2, 14, 8, 17, 17, 10, 21, 38,
     15, 1, 31, 8, 17, 32, 11, 29, 7, 29, 14, 28, 41, 24, 15, 18, 15, 5, 2, 8,
     25, 15, 23, 24, 39, 12, 23, 17, 36, 15, 36, 7, 7, 15, 28, 19, 26, 28, 8,
     13, 35, 31, 17, 37, 18, 17, 3, 8, 4, 1, 36, 0, 32, 37, 10, 25, 28, 8, 34,
     1, 32, 26, 29, 5, 18, 40, 13, 33, 34, 2, 12, 19, 6, 24, 8, 12, 24, 24, 12,
     11, 23, 39, 37, 6, 22, 24, 40, 41, 12, 16, 9, 7, 7, 41, 22, 10, 9, 6, 29,
     3, 34, 29, 4, 12, 0, 17, 40, 35, 2, 25, 5, 16, 36, 10, 19, 26, 9, 40, 21,
     17, 19, 23, 11, 26, 21, 33, 37, 5, 22, 24, 21, 22, 7, 1, 36, 22, 25, 41,
     13, 37, 26, 29, 41, 7, 33, 20, 41, 10, 8, 21, 33, 16, 30, 35, 7, 1, 1, 20,
     5, 13, 36, 25, 33, 14, 8, 38, 6, 11, 36, 31, 15, 1, 8, 7, 27, 8, 0, 16,
     40, 28, 37, 35, 25, 27, 31, 34, 35, 2, 16, 39, 33, 16, 12, 8, 25, 35, 1,
     1, 19, 16, 22, 35, 33, 34, 25, 31, 38, 28, 5, 32, 29, 32, 26, 13, 16, 0,
     19, 40, 0, 35, 39, 10, 16, 35, 25, 6, 3, 8, 34, 23, 39, 29, 35, 15, 30, 9,
     3, 25, 35, 41, 14, 38, 41, 17, 17, 27, 3, 33, 26, 26, 36, 25, 13, 7, 40,
     15, 28, 15, 8, 40, 13, 23, 38, 39, 3, 8, 18, 24, 8, 13, 18, 34, 12, 21, 2,
     23, 5, 13, 16, 38, 28, 6, 10, 10, 29, 15, 25, 31, 12, 21, 35, 14, 41, 6,
     20, 34, 1, 16, 29, 18, 37, 4, 35, 17, 34, 18, 16, 2, 7, 28, 8, 7, 30, 33,
     9, 16, 29, 14, 25, 5, 27, 39, 33, 10, 10, 33, 36, 3, 41, 8, 18, 31, 36,
     13, 39, 18, 3, 7, 40, 9, 14, 34, 24, 40, 34, 7, 19, 32, 31, 41, 1, 10, 12,
     4, 37, 8, 19, 9, 1, 32, 35, 19, 18, 26, 18, 15, 39, 3, 36, 27, 16, 4, 35,
     32, 14, 16, 20, 39, 27, 34, 5, 8, 30, 0, 41, 30, 38, 20, 14, 36, 3, 8, 29,
     26, 23, 34, 10, 29, 4, 32, 40, 17, 35, 23, 6, 19, 9, 13, 23, 31, 5, 22,
     16, 30, 34, 41, 35, 1, 29, 1, 39, 15, 1, 19, 30, 19, 21, 22, 16, 31, 10,
     3, 39, 32, 13, 27, 2, 26, 13, 9, 17, 9, 11, 0, 8, 16, 12, 17, 20, 24, 32,
     0, 18, 38, 17, 33, 9, 15, 18, 39, 27, 33, 23, 26, 0, 9, 31, 15, 1, 29, 2,
     26, 3, 38, 9, 3, 5, 14, 11, 21, 24, 0, 32, 11, 4, 28, 11, 35, 38, 20, 22,
     25, 8, 30, 7, 23, 41, 39, 2, 35, 11, 37, 39, 8, 16, 32, 15, 37, 15, 22, 5,
     31, 6, 27, 0, 5, 8, 23, 2, 31, 5, 19, 4, 16, 15, 31, 25, 5, 21, 12, 24,
     30, 14, 37, 29, 24, 3, 32, 27, 38, 8, 32, 39, 18, 40, 0, 34, 33, 38, 34,
     4, 26, 0, 38, 23, 34, 25, 10, 38, 34, 0, 7, 7, 38, 5, 15, 27, 27, 12, 25,
     9, 2, 9, 17, 9, 5, 0, 19, 20, 39, 6, 37, 19, 32, 29, 24, 25, 27, 17, 34,
     38, 31, 15, 20, 0, 13, 4, 14, 1, 35, 37, 7, 28, 10, 30, 5, 41, 24, 1, 23,
     13, 20, 28, 29, 12, 10, 11, 21, 15, 10, 35, 14, 12, 23, 24, 10, 25, 3, 20,
     39, 40, 32, 15, 23, 24, 22, 25, 39, 20, 38, 13, 34, 21, 9, 38, 38, 14, 22,
     21, 7, 37, 26, 31, 24, 8, 1, 26, 7, 19, 13, 35, 13, 7, 9, 17, 20, 21, 5,
     24, 0, 19, 36, 22, 5, 0, 17, 34, 11, 14, 37, 18, 26, 20, 19, 20, 26, 24,
     4, 14, 19, 28, 16, 16, 2, 5, 27, 0, 7, 25, 36, 38, 16, 30, 14, 22, 16, 4,
     25, 15, 0, 8, 31, 3, 23, 14, 4, 25, 6, 8, 39, 22, 19, 20, 16, 0, 5, 7, 9,
     13, 39, 35, 17, 5, 26, 11, 15, 8, 14, 41, 11, 12, 0, 15, 20, 31, 25, 9,
     41, 23, 22, 7, 20, 23, 8, 7, 23, 13, 21, 31, 31, 8, 35, 34, 36, 9, 27, 10,
     30, 24, 38, 25, 17, 35, 23, 15, 27, 30, 31, 38, 7, 16, 6, 38, 4, 22, 22,
     27, 6, 9, 2, 13, 2, 5, 6, 35, 32, 16, 16, 39, 41, 37, 6, 8, 23, 11, 15, 1,
     20, 40, 3, 31, 37, 36, 8, 26, 0, 31, 9, 30, 8, 19, 11, 6, 31, 11, 16, 41,
     33, 15, 3, 22, 18, 0, 5, 8, 5, 27, 27, 25, 6, 0, 26, 15, 1, 26, 22, 6, 26,
     20, 40, 41, 16, 4, 41, 18, 10, 25, 7, 39, 18, 40, 26, 8, 37, 18, 18, 3,
     27, 6, 35, 18, 7, 16, 4, 18, 32, 34, 40, 31, 24, 11, 7, 1, 31, 10, 20, 3,
     34, 33, 5, 3, 7, 20, 17, 1, 37, 37, 20, 8, 7, 9, 36, 16, 29, 29, 25, 16,
     33, 30, 36, 38, 28, 2, 11, 2, 8, 9, 26, 8, 1, 12, 31, 26, 22, 40, 1, 28,
     6, 6, 26, 1, 36, 10, 8, 1, 10, 9, 6, 2, 23, 18, 1, 38, 31, 9, 23, 40, 29,
     11, 38, 15, 12, 4, 33, 22, 16, 23, 24, 36, 26, 4, 30, 11, 40, 1, 33, 8,
     26, 26, 34, 40, 35, 2, 28, 40, 38, 19, 7, 36, 40, 7, 5, 41, 9, 5, 10, 41,
     7, 2, 37, 29, 1, 5, 0, 27, 39, 1, 0, 7, 1, 1, 20, 39, 18, 11, 20, 35, 37,
     33, 23, 25, 9, 32, 17, 0, 32, 30, 18, 30, 16, 6, 7, 7, 13, 9, 29, 4, 31,
     38, 1, 38, 13, 28, 33, 5, 25, 14, 30, 35, 6, 17, 18, 7, 15, 32, 11, 40,
     40, 14, 14, 27, 6, 24, 11, 7, 22, 11, 10, 26, 8, 28, 28, 27, 28, 13, 7,
     15, 0, 0, 25, 31, 41, 29, 39, 41, 38, 28, 41, 3, 24, 3, 4, 7, 15, 37, 9,
     15, 17, 22, 18, 35, 33, 38, 22, 38, 29, 31, 19, 24, 16, 15, 37, 4, 18, 4,
     32, 33, 20, 19, 7, 34, 15, 31, 16, 21, 1, 22, 3, 26, 38, 0, 20, 13, 34,
     36, 7, 13, 10, 1, 12, 39, 1, 41, 28, 18, 26, 13, 13, 5, 33, 40, 32, 23,
     25, 36, 13, 27, 7, 41, 1, 33, 0, 23, 41, 5, 27, 41, 22, 19, 11, 14, 4, 17,
     26, 18, 1, 25, 40, 36, 22, 0, 4, 16, 41, 29, 12, 18, 15, 18, 18, 3, 24,
     12, 12, 2, 28, 4, 28, 30, 22, 32, 32, 32, 7, 35, 39, 21, 0, 33, 41, 23,
     21, 3, 19, 9, 15, 4, 9, 39, 41, 6, 40, 8, 10, 38, 25, 10, 1, 13, 20, 18,
     2, 19, 15, 14, 8, 34, 6, 38, 36, 35, 17, 11, 28, 28, 5, 9, 31, 19, 5, 23,
     21, 14, 11, 31, 6, 15, 33, 9, 1, 10, 13, 7, 11, 25, 15, 8, 29, 14, 29, 20,
     11, 37, 10, 18, 27, 32, 8, 16, 33, 23, 4, 16, 32, 9, 2, 1, 26, 26, 30, 32,
     29, 40, 34, 12, 31, 10, 27, 25, 16, 1, 36, 40, 34, 11, 1, 32, 9, 36, 30,
     28, 14, 19, 41, 31, 16, 4, 22, 39, 28, 31, 33, 39, 38, 18, 0, 17, 1, 40,
     13, 7, 33, 32, 19, 20, 27, 27, 32, 29, 7, 24, 28, 14, 35, 13, 8, 5, 4, 23,
     26, 5, 15, 35, 32, 19, 15, 22, 26, 28, 31, 40, 16, 39, 3, 23, 14, 5, 20,
     17, 14, 2, 14, 8, 2, 26, 12, 22, 16, 39, 1, 1, 36, 32, 35, 30, 24, 16, 26,
     14, 18, 15, 33, 5, 36, 34, 2, 2, 1, 4, 40, 17, 37, 24, 10, 22, 9, 41, 18,
     18, 0, 32, 32, 8, 28, 36, 13, 10, 35, 27, 41, 29, 3, 22, 34, 6, 18, 41, 9,
     0, 15, 2, 18, 27, 4, 20, 20, 37, 7, 23, 36, 11, 13, 38, 28, 9, 40, 25, 39,
     11, 29, 16, 22, 19, 34, 23, 8, 36, 40, 34, 8, 12, 33, 3, 2, 11, 8, 15, 35,
     27, 40, 19, 2, 24, 8, 19, 5, 38, 2, 33, 8, 36, 35, 8, 27, 31, 5, 33, 19,
     34, 24, 19, 8, 16, 3, 14, 29, 13, 19, 10, 19, 36, 15, 9, 3, 36, 38, 35,
     32, 31, 17, 11, 38, 9, 23, 11, 14, 0, 26, 13, 38, 29, 23, 3, 4, 17, 39,
     40, 2, 35, 39, 2, 38, 14, 18, 0, 19, 29, 21, 27, 31, 16, 33, 27, 28, 41,
     33, 4, 33, 16, 36, 6, 16, 35, 15, 25, 28, 24, 27, 30, 19, 38, 6, 26, 28,
     9, 2, 15, 30, 24, 27, 40, 24, 2, 17, 19, 33, 30, 37, 11, 7, 25, 38, 19,
     36, 5, 7, 31, 7, 35, 39, 30, 21, 27, 32, 33, 16, 40, 3, 15, 18, 22, 17, 4,
     37, 29, 0, 29, 22, 18, 32, 16, 2, 27, 17, 2, 26, 20, 38, 18, 30, 29, 7,
     24, 3, 38, 39, 3, 16, 37, 10, 25, 27, 37, 18, 28, 7, 8, 4, 17, 35, 26, 12,
     40, 5, 11, 37, 38, 0, 28, 1, 38, 28, 21, 4, 37, 30, 19, 13, 10, 25, 9, 39,
     27, 36, 6, 34, 35, 12, 7, 40, 19, 28, 38, 27, 0, 14, 1, 31, 13, 19, 20,
     21, 2, 39, 40, 5, 2, 39, 15, 32, 10, 10, 30, 15, 20, 36, 20, 13, 34, 17,
     11, 16, 23, 3, 8, 15, 3, 7, 20, 20, 27, 17, 15, 31, 10, 21, 7, 35, 19, 24,
     39, 1, 26, 1, 8, 5, 24, 8, 28, 5, 16, 31, 18, 40, 37, 20, 22, 23, 30, 41,
     33, 11, 34, 21, 33, 38, 40, 21, 6, 10, 9, 14, 25, 26, 13, 29, 30, 40, 21,
     6, 14, 11, 16, 40, 19, 21, 18, 13, 28, 37, 33, 15, 39, 9, 2, 31, 1, 28,
     27, 11, 37, 15, 24, 4, 23, 8, 34, 17, 8, 35, 7, 4, 10, 36, 38, 14, 15, 7,
     19, 7, 12, 10, 19, 25, 9, 32, 38, 5, 38, 24, 32, 26, 18, 26, 31, 4, 32,
     25, 2, 3, 9, 18, 30, 18, 7, 2, 24, 6, 14, 27, 31, 13, 41, 12, 38, 14, 8,
     36, 0, 41, 17, 2, 35, 35, 11, 11, 37, 22, 11, 16, 8, 41, 30, 35, 4, 1, 13,
     9, 30, 23, 2, 28, 39, 14, 4, 33, 24, 32, 33, 36, 15, 14, 31, 1, 18, 30,
     11, 40, 17, 0, 23, 17, 12, 35, 18, 32, 29, 29, 5, 41, 1, 2, 21, 34, 35,
     10, 26, 23, 20, 38, 0, 12, 10, 2, 30, 22, 14, 27, 2, 26, 24, 0, 15, 6, 1,
     36, 17, 32, 0, 17, 3, 0, 34, 34, 21, 12, 6, 10, 18, 26, 34, 32, 21, 6, 36,
     3, 12, 2, 4, 13, 41, 41, 25, 0, 33, 35, 7, 6, 22, 37, 37, 15, 7, 30, 6,
     11, 22, 32, 31, 26, 11, 11, 36, 31, 12, 0, 33, 11, 33, 16, 17, 20, 2, 33,
     41, 18, 2, 5, 19, 34, 18, 27, 15, 28, 38, 22, 13, 26, 16, 24, 2, 5, 24,
     34, 1, 39, 33, 3, 27, 21, 16, 31, 30, 41, 3, 2, 21, 1, 12, 2, 36, 30, 33,
     3, 26, 0, 11, 25, 33, 41, 21, 37, 13, 23, 0, 24, 17, 30, 35, 8, 6, 20, 3,
     36, 9, 0, 23, 8, 37, 18, 27, 21, 6, 20, 23, 19, 31, 15, 14, 7, 24, 4, 28,
     24, 32, 15, 12, 13, 10, 32, 3, 8, 28, 15, 34, 27, 4, 10, 19, 19, 35, 20,
     26, 2, 4, 27, 28, 17, 34, 1, 21, 18, 40, 6, 4, 12, 28, 39, 27, 36, 40, 14,
     24, 39, 35, 35, 6, 3, 15, 26, 22, 39, 19, 33, 32, 3, 19, 31, 39, 16, 31,
     12, 13, 27, 30, 0, 16, 18, 18, 38, 16, 23, 3, 34, 10, 40, 13, 3, 40, 40,
     6, 37, 0, 8, 30, 2, 34, 3, 13, 11, 26, 32, 39, 22, 8, 19, 22, 31, 27, 15,
     23, 3, 27, 5, 41, 37, 6, 39, 23, 29, 17, 28, 9, 8, 19, 34, 34, 17, 12, 0,
     3, 33, 24, 36, 35, 12, 27, 33, 15, 6, 11, 5, 28, 34, 15, 21, 27, 34, 4,
     31, 40, 11, 26, 39, 8, 34, 21, 3, 17, 25, 23, 28, 7, 36, 24, 10, 39, 12,
     26, 15, 14, 0, 13, 25, 18, 16, 32, 8, 18, 34, 14, 26, 5, 1, 28, 36, 15,
     15, 24, 7, 3, 19, 12, 30, 40, 17, 24, 28, 40, 26, 22, 16, 5, 9, 0, 6, 40,
     12, 36, 27, 2, 29, 21, 7, 41, 9, 39, 32, 15, 33, 12, 9, 40, 39, 30, 32,
     23, 22, 41, 11, 8, 31, 38, 32, 0, 17, 3, 34, 36, 24, 0, 41, 32, 38, 9, 21,
     0, 19, 41, 18, 30, 40, 1, 5, 20, 20, 26, 27, 23, 1, 18, 8, 41, 18, 34, 0,
     2, 11, 2, 0, 5, 34, 41, 39, 8, 20, 34, 27, 26, 40, 22, 6, 16, 24, 12, 25,
     27, 38, 10, 18, 7, 7, 20, 31, 7, 32, 11, 41, 41, 27, 27, 0, 16, 22, 27, 7,
     14, 31, 22, 1, 36, 29, 1, 2, 27, 24, 0, 22, 18, 25, 6, 7, 0, 30, 24, 34,
     3, 2, 6, 34, 39, 10, 24, 23, 8, 37, 14, 14, 41, 20, 21, 11, 23, 30, 33,
     15, 4, 7, 28, 13, 38, 33, 36, 1, 6, 12, 19, 0, 34, 29, 22, 8, 11, 6, 8,
     23, 12, 2, 35, 21, 9, 41, 30, 36, 13, 24, 35, 38, 14, 40, 13, 7, 4, 19, 6,
     0, 37, 5, 23, 8, 36, 38, 32, 31, 9, 16, 14, 3, 9, 31, 3, 11, 23, 7, 28,
     13, 15, 23, 16, 38, 17, 2, 22, 18, 12, 14, 38, 1, 5, 4, 13, 28, 10, 24,
     35, 5, 25, 36, 39, 7, 10, 39, 39, 36, 38, 29, 2, 26, 12, 14, 35, 14, 31,
     31, 1, 34, 39, 34, 4, 24, 4, 1, 2, 41, 25, 20, 37, 35, 31, 1, 14, 40, 15,
     9, 13, 38, 1, 26, 5, 23, 27, 29, 38, 1, 8, 15, 32, 33, 6, 8, 34, 8, 27, 9,
     17, 36, 23, 16, 14, 27, 5, 40, 19, 12, 16, 16, 40, 4, 34, 26, 40, 24, 28,
     16, 19, 12, 20, 20, 40, 4, 38, 33, 13, 36, 6, 38, 29, 30, 36, 25, 16, 25,
     41, 37, 25, 25, 31, 26, 31, 31, 20, 15, 30, 12, 1, 16, 25, 19, 14, 25, 5,
     32, 17, 4, 19, 13, 38, 25, 38, 4, 41, 41, 31, 22, 17, 13, 26, 8, 31, 33,
     2, 18, 7, 27, 1, 19, 18, 7, 34, 2, 41, 34, 38, 15, 32, 16, 10, 3, 10, 24,
     23, 6, 21, 18, 13, 9, 4, 15, 20, 6, 34, 16, 4, 31, 37, 17, 37, 41, 16, 12,
     5, 8, 13, 22, 40, 26, 13, 17, 41, 20, 29, 4, 27, 19, 10, 28, 38, 12, 15,
     10, 22, 32, 35, 29, 28, 2, 40, 38, 27, 27, 23, 22, 5, 1, 3, 31, 17, 33, 2,
     4, 8, 6, 19, 7, 41, 8, 6, 30, 15, 31, 1, 1, 41, 5, 33, 34, 9, 36, 6, 27,
     2, 41, 15, 12, 9, 19, 3, 1, 3, 8, 26, 0, 37, 26, 32, 32, 4, 0, 0, 10, 4,
     10, 6, 15, 4, 14, 6, 23, 3, 11, 25, 34, 4, 2, 2, 3, 1, 34, 17, 12, 22, 32,
     9, 27, 22, 25, 21, 32, 32, 25, 18, 17, 35, 15, 31, 28, 25, 29, 21, 6, 6,
     0, 0, 15, 21, 19, 25, 11, 30, 0, 30, 41, 10, 20, 8, 3, 11, 8, 31, 36, 5,
     6, 5, 39, 4, 29, 20, 9, 33, 19, 23, 36, 29, 19, 24, 30, 8, 15, 12, 1, 26,
     40, 39, 31, 7, 32, 23, 28, 29, 39, 28, 18, 39, 24, 1, 12, 17, 17, 18, 7,
     22, 35, 8, 3, 19, 28, 24, 9, 29, 16, 3, 4, 16, 38, 25, 23, 16, 38, 38, 9,
     4, 11, 27, 35, 36, 22, 10, 13, 9, 34, 27, 10, 21, 37, 5, 20, 28, 13, 12,
     1, 22, 17, 24, 3, 35, 0, 35, 31, 9, 4, 16, 28, 15, 11, 9, 26, 37, 34, 39,
     17, 40, 13, 1, 13, 19, 29, 26, 34, 4, 5, 0, 28, 38, 18, 0, 37, 1, 23, 2,
     25, 26, 20, 30, 14, 0, 40, 1, 32, 24, 8, 8, 0, 13, 38, 36, 5, 16, 28, 41,
     38, 10, 35, 27, 11, 9, 6, 15, 18, 37, 3, 14, 37, 37, 17, 38, 33, 9, 40,
     33, 35, 31, 9, 5, 38, 36, 38, 27, 1, 8, 30, 10, 41, 21, 29, 0, 37, 1, 41,
     40, 36, 26, 17, 24, 35, 15, 13, 32, 39, 10, 6, 39, 41, 31, 37, 40, 4, 5,
     29, 8, 41, 40, 17, 24, 21, 18, 13, 23, 24, 15, 19, 25, 6, 16, 6, 29, 35,
     24, 8, 36, 15, 0, 39, 35, 12, 30, 28, 9, 14, 10, 30, 2, 21, 10, 24, 30,
     21, 23, 34, 22, 27, 10, 21, 18, 13, 28, 0, 23, 25, 14, 30, 6, 9, 20, 16,
     1, 23, 0, 6, 30, 26, 0, 20, 40, 5, 30, 13, 20, 40, 2, 14, 35, 3, 26, 37,
     5, 37, 35, 41, 5, 16, 18, 20, 26, 25, 17, 41, 34, 28, 1, 14, 11, 17, 13,
     7, 9, 24, 5, 6, 5, 9, 36, 40, 31, 41, 14, 33, 15, 30, 39, 9, 17, 19, 10,
     38, 38, 6, 6, 24, 5, 17, 26, 19, 27, 0, 32, 20, 23, 34, 26, 24, 19, 2, 31,
     28, 38, 7, 18, 12, 12, 0, 19, 15, 20, 3, 20, 23, 19, 17, 30, 31, 13, 30,
     5, 11, 14, 36, 3, 22, 30, 18, 14, 37, 20, 40, 16, 4, 29, 0, 35, 10, 1, 31,
     29, 18, 17, 13, 21, 9, 25, 24, 39, 1, 26, 21, 28, 9, 8, 5, 7, 23, 1, 3,
     40, 0, 13, 1, 18, 35, 37, 20, 28, 21, 25, 21, 38, 36, 35, 12, 31, 25, 36,
     36, 4, 13, 35, 17, 9, 6, 32, 36, 22, 19, 35, 10, 36, 25, 41, 18, 28, 37,
     39, 18, 10, 25, 12, 38, 33, 30, 24, 4, 39, 4, 6, 34, 27, 21, 30, 7, 39,
     18, 17, 39, 4, 22, 26, 32, 23, 15, 12, 19, 30, 19, 11, 31, 13, 37, 21, 23,
     12, 4, 1, 16, 36, 19, 34, 5, 40, 14, 16, 15, 20, 2, 19, 41, 32, 27, 35,
     39, 31, 33, 35, 32, 19, 40, 38, 12, 35, 4, 6, 2, 1, 3, 29, 4, 37, 33, 10,
     0, 26, 34, 21, 12, 38, 30, 19, 7, 30, 26, 8, 41, 16, 19, 41, 28, 2, 5, 38,
     40, 1, 7, 25, 7, 23, 6, 6, 35, 29, 6, 39, 9, 12, 28, 25, 7, 18, 27, 21, 9,
     23, 19, 4, 23, 4, 10, 39, 1, 22, 24, 33, 28, 11, 38, 21, 1, 13, 0, 19, 28,
     25, 9, 0, 40, 8, 28, 20, 27, 15, 17, 40, 31, 6, 22, 39, 35, 19, 29, 4, 23,
     26, 0, 10, 15, 26, 3, 17, 14, 19, 36, 10, 34, 27, 19, 20, 37, 39, 25, 24,
     34, 39, 37, 41, 12, 26, 16, 41, 3, 20, 34, 1, 12, 27, 41, 30, 26, 9, 15,
     39, 23, 28, 14, 17, 2, 27, 23, 9, 24, 16, 0, 36, 10, 21, 23, 35, 21, 27,
     5, 23, 15, 40, 5, 18, 4, 19, 18, 0, 15, 11, 13, 6, 14, 34, 29, 41, 21, 37,
     41, 33, 35, 19, 32, 6, 10, 32, 31, 4, 14, 8, 5, 39, 28, 11, 26, 2, 17, 38,
     11, 17, 22, 0, 11, 39, 2, 31, 8, 27, 1, 19, 0, 39, 0, 40, 19, 40, 20, 32,
     30, 5, 14, 1, 14, 36, 30, 5, 11, 40, 24, 36, 31, 2, 19, 39, 38, 6, 0, 6,
     18, 29, 5, 35, 16, 32, 39, 33, 34, 12, 12, 15, 3, 10, 41, 0, 3, 11, 15,
     26, 10, 8, 22, 1, 8, 25, 21, 18, 33, 22, 9, 30, 4, 9, 4, 17, 25, 22, 24,
     31, 11, 9, 15, 26, 37, 33, 7, 7, 6, 15, 8, 38, 37, 29, 36, 4, 39, 8, 41,
     38, 16, 7, 27, 10, 24, 39, 9, 18, 33, 17, 16, 23, 40, 22, 2, 30, 2, 41, 7,
     11, 22, 5, 23, 14, 31, 11, 28, 6, 38, 14, 9, 2, 10, 5, 7, 0, 22, 18, 40,
     1, 22, 14, 8, 37, 36, 14, 20, 17, 8, 21, 2, 9, 15, 29, 10, 40, 14, 4, 2,
     36, 28, 11, 37, 20, 28, 29, 35, 27, 40, 22, 31, 1, 12, 22, 18, 0, 33, 24,
     40, 35, 24, 12, 32, 15, 35, 28, 26, 35, 40, 11, 21, 2, 36, 32, 31, 5, 0,
     34, 21, 12, 23, 40, 36, 3, 22, 31, 23, 23, 18, 6, 7, 12, 9, 25, 29, 31, 2,
     11, 29, 3, 13, 32, 11, 14, 8, 22, 8, 35, 18, 37, 23, 35, 34, 21, 14, 39,
     31, 31, 27, 38, 41, 33, 36, 12, 7, 41, 41, 38, 35, 40, 1, 32, 9, 40, 36,
     40, 18, 29, 6, 26, 33, 25, 4, 6, 37, 27, 35, 0, 35, 18, 31, 18, 37, 19,
     31, 7, 16, 23, 0, 28, 35, 39, 3, 26, 32, 30, 37, 5, 23, 27, 6, 7, 13, 34,
     1, 39, 36, 3, 12, 5, 13, 15, 29, 7, 12, 37, 13, 4, 32, 35, 20, 41, 19, 31,
     10, 28, 11, 38, 13, 20, 28, 21, 35, 14, 31, 31, 30, 9, 18, 6, 26, 21, 32,
     10, 35, 21, 2, 26, 39, 14, 36, 34, 27, 34, 9, 12, 17, 13, 21, 37, 9, 35,
     24, 14, 6, 11, 21, 20, 41, 37, 24, 11, 35, 33, 40, 26, 39, 17, 25, 26, 6,
     21, 35, 24, 29, 6, 19, 17, 18, 41, 11, 40, 21, 1, 14, 4, 14, 1, 23, 27,
     31, 32, 33, 27, 0, 34, 22, 19, 27, 11, 4, 40, 24, 23, 10, 9, 19, 19, 14,
     2, 18, 40, 4, 13, 37, 16, 30, 40, 1, 39, 32, 4, 7, 35, 26, 21, 8, 2, 18,
     29, 39, 33, 19, 41, 26, 1, 35, 33, 30, 3, 33, 18, 11, 24, 12, 11, 20, 21,
     11, 21, 27, 13, 31, 26, 2, 0, 1, 5, 18, 33, 36, 4, 37, 6, 26, 14, 9, 29,
     16, 18, 2, 39, 4, 6, 41, 10, 17, 34, 23, 34, 23, 21, 15, 19, 7, 16, 38,
     11, 35, 27, 19, 29, 14, 29, 15, 39, 5, 28, 0, 39, 30, 40, 30, 34, 27, 41,
     37, 24, 19, 38, 39, 11, 11, 31, 18, 10, 19, 3, 7, 10, 26, 5, 2, 21, 5, 35,
     6, 36, 34, 5, 28, 34, 33, 8, 19, 24, 20, 24, 31, 36, 10, 19, 35, 28, 38,
     30, 33, 38, 37, 2, 23, 16, 17, 34, 0, 24, 25, 22, 28, 11, 2, 8, 38, 16,
     10, 9, 1, 13, 8, 6, 18, 12, 35, 18, 17, 25, 22, 25, 4, 24, 15, 19, 40, 34,
     2, 21, 13, 33, 13, 32, 31, 23, 8, 41, 29, 5, 23, 38, 7, 19, 32, 14, 21,
     13, 22, 26, 12, 5, 41, 34, 38, 36, 36, 13, 13, 11, 3, 21, 2, 2, 17, 16,
     12, 1, 12, 17, 13, 21, 20, 4, 9, 3, 21, 33, 10, 35, 5, 10, 26, 29, 32, 10,
     37, 20, 36, 32, 15, 41, 14, 29, 7, 20, 0, 13, 13, 28, 15, 8, 40, 29, 19,
     20, 16, 38, 26, 34, 33, 21, 24, 8, 9, 8, 36, 2, 8, 12, 7, 11, 26, 36, 6,
     39, 28, 10, 22, 3, 25, 40, 29, 9, 5, 31, 30, 4, 5, 2, 1, 22, 3, 25, 19,
     24, 26, 4, 24, 11, 21, 13, 22, 1, 40, 19, 8, 23, 15, 33, 15, 22, 39, 34,
     24, 7, 22, 21, 12, 0, 11, 21, 5, 18, 10, 8, 12, 6, 23, 27, 37, 18, 19, 27,
     17, 21, 38, 14, 32, 28, 16, 24, 21, 9, 22, 39, 22, 3, 39, 0, 24, 32, 25,
     26, 22, 14, 39, 33, 31, 22, 31, 3, 5, 28, 14, 28, 22, 11, 37, 32, 39, 27,
     41, 40, 28, 34, 9, 0, 31, 25, 30, 18, 26, 14, 39, 15, 13, 3, 7, 15, 36,
     17, 11, 32, 41, 15, 10, 5, 2, 37, 11, 32, 41, 35, 41, 7, 7, 26, 19, 32,
     21, 25, 3, 16, 35, 4, 28, 1, 40, 25, 15, 16, 5, 23, 26, 2, 32, 34, 37, 14,
     37, 7, 3, 31, 2, 5, 26, 6, 8, 5, 31, 23, 16, 16, 28, 18, 24, 41, 27, 41,
     6, 30, 5, 38, 26, 40, 16, 32, 30, 21, 7, 11, 9, 30, 19, 37, 6, 6, 24, 11,
     19, 6, 41, 12, 34, 3, 23, 28, 6, 26, 36, 38, 11, 33, 11, 31, 20, 14, 18,
     1, 30, 1, 26, 5, 12, 4, 17, 28, 40, 20, 31, 40, 28, 24, 18, 39, 29, 10,
     25, 34, 31, 11, 5, 34, 32, 19, 26, 28, 18, 17, 30, 38, 11, 37, 28, 4, 40,
     20, 6, 16, 12, 10, 6, 6, 17, 15, 22, 41, 36, 17, 34, 39, 40, 38, 5, 15, 1,
     25, 4, 9, 15, 30, 0, 38, 12, 30, 25, 5, 7, 32, 20, 4, 18, 36, 37, 27, 30,
     19, 2, 25, 30, 40, 30, 23, 35, 15, 9, 20, 34, 20, 14, 36, 0, 28, 41, 29,
     26, 29, 38, 11, 32, 17, 23, 12, 41, 22, 32, 5, 2, 15, 35, 30, 3, 2, 25,
     28, 15, 10, 32, 21, 30, 24, 7, 15, 35, 22, 5, 33, 5, 5, 41, 2, 31, 5, 22,
     3, 12, 34, 30, 18, 24, 20, 2, 20, 13, 26, 10, 18, 14, 27, 12, 21, 24, 14,
     39, 18, 10, 14, 30, 6, 29, 24, 40, 20, 5, 33, 30, 22, 25, 21, 7, 12, 21,
     28, 34, 17, 17, 14, 31, 11, 37, 38, 12, 21, 28, 2, 35, 34, 21, 20, 14, 20,
     6, 6, 18, 22, 5, 27, 5, 25, 1, 37, 29, 36, 0, 24, 25, 2, 22, 7, 8, 30, 27,
     26, 15, 6, 10, 18, 19, 35, 36, 2, 12, 8, 6, 28, 23, 5, 24, 17, 15, 37, 32,
     5, 37, 35, 15, 37, 11, 35, 22, 13, 38, 5, 28, 28, 19, 5, 10, 16, 8, 38, 5,
     27, 37, 21, 0, 8, 3, 12, 24, 27, 36, 22, 37, 35, 18, 32, 24, 22, 24, 16,
     21, 6, 23, 36, 13, 27, 31, 13, 31, 39, 34, 16, 37, 37, 21, 20, 31, 35, 9,
     8, 1, 7, 18, 11, 32, 40, 30, 28, 25, 24, 7, 10, 0, 20, 12, 11, 28, 30, 14,
     10, 29, 9, 9, 41, 33, 11, 32, 28, 8, 40, 31, 13, 20, 33, 38, 39, 18, 10,
     23, 7, 24, 7, 26, 38, 7, 3, 8, 41, 39, 15, 38, 9, 28, 0, 15, 23, 1, 21,
     21, 36, 34, 9, 27, 3, 6, 29, 17, 4, 14, 0, 26, 2, 13, 30, 23, 10, 33, 37,
     6, 16, 7, 15, 5, 22, 20, 27, 31, 16, 30, 33, 11, 19, 14, 28, 32, 15, 24,
     0, 33, 9, 27, 11, 34, 30, 0, 0, 2, 18, 2, 6, 22, 4, 28, 30, 37, 39, 27, 4,
     4, 6, 21, 39, 0, 20, 39, 30, 37, 14, 5, 0, 1, 20, 24, 25, 20, 37, 37, 32,
     14, 27, 14, 21, 0, 20, 34, 37, 36, 32, 22, 34, 22, 41, 13, 12, 15, 41, 41,
     6, 38, 25, 35, 25, 16, 8, 32, 14, 30, 26, 18, 35, 19, 13, 23, 11, 22, 8,
     18, 9, 41, 18, 17, 12, 39, 11, 2, 8, 11, 38, 41, 18, 13, 17, 21, 0, 7, 0,
     2, 27, 30, 24, 4, 11, 26, 13, 3, 26, 6, 15, 4, 39, 25, 26, 40, 27, 39, 25,
     35, 39, 9, 36, 38, 5, 4, 5, 20, 16, 14, 34, 4, 30, 0, 30, 33, 11, 7, 38,
     33, 20, 0, 6, 16, 30, 12, 39, 27, 2, 41, 12, 36, 31, 30, 13, 39, 6, 28,
     40, 37, 7, 6, 34, 34, 14, 34, 26, 40, 28, 35, 23, 32, 16, 37, 13, 34, 15,
     2, 36, 22, 11, 22, 3, 14, 9, 26, 29, 25, 22, 10, 19, 36, 15, 29, 37, 10,
     24, 17, 27, 1, 0, 10, 34, 15, 17, 36, 21, 19, 35, 25, 30, 29, 33, 3, 26,
     25, 15, 3, 12, 14, 29, 0, 36, 0, 0, 23, 23, 2, 22, 28, 10, 30, 26, 2, 22,
     21, 30, 25, 39, 30, 0, 16, 16, 28, 33, 2, 33, 28, 39, 17, 24, 8, 18, 0, 5,
     27, 24, 20, 4, 0, 37, 4, 1, 6, 23, 23, 34, 34, 3, 15, 26, 22, 29, 12, 14,
     16, 29, 24, 34, 36, 41, 2, 31, 12, 16, 9, 10, 37, 9, 30, 15, 19, 20, 8, 3,
     38, 31, 22, 0, 8, 2, 41, 27, 9, 34, 32, 30, 40, 12, 8, 1, 39, 24, 14, 20,
     29, 4, 2, 17, 30, 8, 15, 22, 19, 4, 8, 2, 3, 24, 35, 1, 29, 35, 4, 40, 8,
     11, 29, 8, 23, 28, 28, 37, 10, 7, 13, 15, 4, 31, 30, 7, 7, 11, 21, 28, 29,
     15, 19, 29, 38, 35, 41, 30, 26, 28, 37, 33, 13, 0, 25, 16, 6, 22, 14, 32,
     0, 35, 24, 17, 27, 32, 0, 39, 4, 4, 7, 17, 41, 10, 28, 11, 7, 35, 26, 34,
     21, 6, 20, 14, 27, 2, 3, 27, 15, 12, 12, 9, 2, 26, 5, 20, 11, 11, 35, 24,
     25, 21, 7, 12, 30, 0, 35, 16, 14, 16, 5, 16, 18, 30, 11, 1, 23, 8, 19, 22,
     9, 35, 23, 40, 38, 37, 33, 37, 5, 5, 1, 21, 34, 34, 32, 21, 26, 25, 9, 34,
     36, 4, 14, 17, 5, 3, 4, 18, 34, 32, 21, 21, 37, 4, 27, 7, 33, 11, 25, 25,
     17, 29, 12, 38, 39, 41, 23, 15, 10, 33, 32, 14, 29, 0, 39, 15, 19, 16, 41,
     39, 31, 28, 18, 3, 23, 38, 18, 5, 27, 8, 41, 2, 23, 2, 25, 10, 0, 13, 32,
     14, 3, 24, 33, 11, 23, 13, 37, 2, 23, 37, 36, 14, 23, 8, 27, 29, 7, 19, 8,
     34, 28, 26, 35, 25, 10, 29, 32, 6, 24, 30, 36, 11, 0, 23, 24, 14, 34, 30,
     40, 0, 3, 7, 4, 8, 12, 36, 13, 38, 1, 38, 17, 19, 25, 11, 29, 5, 1, 39,
     31, 19, 18, 11, 8, 31, 3, 7, 3, 4, 11, 4, 36, 41, 7, 30, 21, 16, 11, 19,
     29, 25, 19, 19, 22, 4, 28, 19, 7, 9, 24, 26, 41, 13, 13, 35, 17, 7, 35,
     33, 18, 37, 10, 1, 16, 39, 30, 7, 5, 18, 24, 34, 30, 32, 12, 18, 33, 7, 8,
     31, 39, 32, 21, 32, 3, 33, 37, 11, 1, 12, 32, 26, 23, 3, 2, 34, 27, 17,
     41, 26, 19, 14, 17, 2, 27, 13, 32, 29, 11, 29, 6, 21, 18, 26, 31, 34, 27,
     8, 6, 3, 4, 10, 34, 8, 19, 17, 17, 12, 37, 19, 15, 32, 22, 23, 5, 37, 36,
     9, 8, 15, 41, 4, 34, 8, 7, 2, 34, 1, 17, 37, 26, 39, 21, 40, 38, 6, 6, 26,
     29, 19, 23, 35, 2, 15, 16, 15, 27, 38, 2, 29, 1, 29, 4, 11, 29, 1, 35, 20,
     40, 31, 29, 1, 22, 20, 40, 20, 19, 15, 36, 37, 36, 16, 34, 23, 11, 20, 41,
     8, 2, 39, 17, 29, 23, 5, 22, 21, 6, 15, 38, 41, 23, 17, 40, 18, 23, 18,
     40, 3, 33, 0, 9, 39, 13, 23, 34, 21, 34, 39, 31, 31, 6, 22, 2, 2, 22, 21,
     14, 8, 33, 6, 36, 19, 33, 0, 30, 16, 30, 3, 17, 17, 2, 25, 8, 29, 26, 16,
     1, 2, 5, 30, 17, 40, 17, 19, 16, 24, 23, 17, 6, 12, 11, 39, 5, 17, 12, 36,
     14, 40, 31, 2, 19, 17, 29, 36, 20, 36, 36, 33, 14, 28, 13, 15, 25, 10, 35,
     19, 16, 12, 9, 25, 25, 36, 10, 6, 33, 10, 31, 22, 33, 20, 15, 5, 1, 39, 0,
     14, 15, 26, 35, 1, 31, 12, 40, 4, 31, 16, 33, 10, 14, 26, 22, 14, 10, 25,
     8, 25, 28, 34, 28, 0, 3, 8, 0, 10, 33, 19, 10, 2, 6, 23, 6, 30, 12, 17,
     23, 10, 9, 30, 3, 9, 2, 9, 28, 31, 10, 20, 3, 18, 22, 18, 29, 18, 5, 28,
     28, 31, 4, 5, 30, 29, 29, 12, 36, 17, 15, 26, 37, 40, 7, 2, 3, 18, 4, 32,
     30, 1, 28, 35, 37, 24, 26, 23, 13, 20, 21, 15, 38, 31, 24, 29, 7, 5, 4,
     40, 2, 4, 40, 16, 14, 0, 20, 32, 24, 10, 7, 21, 36, 4, 19, 40, 3, 15, 13,
     3, 1, 40, 23, 17, 4, 13, 31, 4, 18, 14, 39, 35, 28, 23, 33, 7, 15, 37, 19,
     7, 9, 8, 0, 34, 21, 21, 41, 14, 15, 9, 38, 11, 40, 3, 29, 12, 23, 9, 37,
     26, 8, 24, 5, 0, 30, 23, 32, 2, 24, 32, 3, 2, 22, 9, 32, 4, 40, 15, 30,
     30, 34, 23, 34, 7, 3, 38, 11, 28, 0, 35, 16, 2, 19, 18, 41, 38, 39, 6, 1,
     4, 31, 37, 37, 36, 16, 40, 3, 11, 15, 29, 26, 26, 1, 26, 10, 11, 32, 0,
     31, 20, 36, 39, 7, 1, 23, 36, 4, 19, 35, 15, 41, 14, 2, 35, 14, 37, 6, 37,
     28, 20, 5, 33, 18, 8, 36, 38, 0, 24, 32, 7, 36, 34, 17, 38, 20, 8, 4, 30,
     1, 14, 3, 22, 23, 0, 37, 4, 9, 1, 29, 17, 31, 6, 15, 21, 30, 7, 10, 13,
     15, 27, 28, 13, 36, 28, 4, 34, 40, 19, 40, 0, 14, 4, 23, 34, 6, 2, 13, 35,
     6, 20, 25, 14, 31, 34, 1, 4, 34, 17, 34, 29, 36, 8, 8, 1, 2, 39, 25, 22,
     22, 16, 21, 31, 4, 9, 12, 25, 35, 17, 28, 1, 30, 37, 13, 5, 2, 4, 13, 19,
     32, 26, 10, 20, 37, 7, 8, 7, 6, 26, 20, 37, 34, 20, 6, 1, 2, 40, 20, 15,
     23, 1, 22, 22, 24, 9, 24, 1, 4, 13, 20, 18, 8, 5, 33, 7, 11, 39, 19, 40,
     27, 15, 20, 13, 31, 0, 7, 1, 27, 4, 6, 13, 11, 23, 6, 38, 17, 7, 36, 40,
     30, 4, 17, 39, 11, 14, 7, 11, 17, 9, 24, 5, 2, 14, 36, 36, 20, 32, 33, 27,
     35, 9, 21, 35, 3, 1, 17, 24, 37, 19, 4, 7, 32, 23, 26, 28, 21, 7, 28, 20,
     32, 40, 32, 32, 12, 33, 12, 39, 7, 37, 32, 19, 20, 32, 18, 30, 36, 18, 23,
     36, 31, 41, 12, 15, 17, 16, 32, 20, 20, 36, 11, 26, 14, 1, 6, 12, 1, 27,
     33, 3, 23, 11, 38, 18, 2, 23, 7, 21, 2, 32, 39, 24, 26, 29, 18, 34, 17, 3,
     35, 15, 29, 3, 30, 9, 3, 23, 7, 37, 38, 4, 9, 35, 22, 22, 41, 14, 30, 32,
     23, 1, 32, 22, 34, 34, 36, 30, 11, 0, 14, 21, 29, 37, 9, 13, 11, 24, 20,
     9, 24, 23, 20, 30, 2, 38, 17, 23, 23, 41, 14, 29, 30, 33, 34, 1, 18, 26,
     7, 20, 8, 39, 23, 30, 7, 20, 0, 24, 20, 7, 32, 18, 40, 27, 6, 10, 10, 31,
     4, 20, 37, 35, 25, 20, 33, 6, 39, 27, 26, 36, 29, 14, 1, 25, 16, 0, 15,
     12, 25, 26, 1, 7, 5, 18, 33, 18, 2, 15, 9, 14, 30, 26, 33, 32, 16, 19, 41,
     14, 8, 33, 7, 29, 37, 16, 4, 16, 5, 0, 19, 5, 37, 37, 34, 15, 11, 17, 11,
     10, 7, 32, 39, 30, 0, 17, 40, 0, 30, 18, 13, 24, 21, 7, 36, 27, 13, 22,
     36, 31, 32, 25, 23, 35, 36, 8, 15, 0, 21, 37, 17, 33, 11, 37, 35, 15, 9,
     2, 21, 28, 9, 34, 0, 0, 34, 2, 19, 9, 20, 7, 41, 34, 27, 14, 41, 5, 40,
     30, 8, 15, 39, 8, 13, 36, 0, 40, 21, 8, 32, 17, 7, 14, 32, 24, 27, 6, 2,
     26, 21, 19, 26, 25, 16, 29, 3, 29, 14, 21, 28, 35, 12, 22, 26, 33, 13, 15,
     36, 40, 33, 20, 14, 9, 8, 7, 17, 6, 26, 28, 32, 25, 39, 13, 22, 18, 16,
     17, 19, 3, 9, 22, 15, 26, 32, 37, 19, 37, 34, 21, 10, 14, 10, 41, 3, 24,
     16, 1, 36, 10, 8, 31, 12, 12, 29, 38, 8, 7, 21, 3, 21, 12, 19, 36, 38, 27,
     30, 23, 27, 18, 21, 12, 5, 40, 7, 10, 2, 29, 27, 28, 38, 17, 19, 17, 30,
     30, 4, 18, 26, 17, 12, 14, 24, 40, 36, 25, 17, 11, 18, 31, 6, 25, 21, 38,
     1, 41, 29, 20, 16, 21, 12, 34, 4, 34, 12, 36, 29, 40, 25, 22, 11, 24, 13,
     13, 15, 41, 13, 0, 13, 21, 38, 13, 10, 13, 40, 5, 1, 20, 10, 35, 3, 6, 26,
     24, 5, 28, 27, 5, 30, 8, 38, 4, 5, 39, 3, 4, 22, 0, 3, 4, 12, 34, 3, 35,
     40, 6, 19, 15, 5, 30, 6, 21, 37, 16, 25, 34, 35, 17, 38, 6, 15, 19, 37,
     11, 16, 33, 41, 39, 38, 34, 11, 30, 35, 38, 0, 34, 7, 24, 7, 26, 23, 27,
     23, 33, 20, 41, 21, 31, 28, 10, 24, 15, 32, 25, 16, 14, 20, 5, 39, 2, 24,
     22, 21, 22, 25, 9, 36, 30, 37, 18, 21, 35, 37, 22, 10, 20, 16, 12, 38, 24,
     20, 2, 10, 37, 10, 38, 34, 22, 16, 9, 35, 0, 4, 22, 4, 14, 28, 38, 14, 40,
     20, 23, 6, 25, 18, 24, 18, 36, 10, 5, 18, 35, 2, 35, 5, 7, 21, 27, 28, 33,
     37, 16, 16, 24, 22, 28, 15, 30, 14, 6, 29, 30, 36, 25, 17, 28, 27, 30, 0,
     4, 16, 41, 25, 8, 2, 8, 20, 4, 4, 8, 13, 40, 27, 21, 12, 20, 32, 28, 6,
     18, 38, 15, 40, 24, 11, 4, 5, 23, 35, 36, 19, 23, 21, 7, 15, 39, 34, 14,
     7, 31, 41, 27, 22, 20, 4, 18, 12, 39, 34, 21, 10, 35, 21, 20, 2, 11, 41,
     0, 18, 41, 1, 11, 4, 31, 19, 34, 11, 27, 23, 34, 34, 21, 2, 20, 18, 22,
     17, 35, 34, 40, 39, 17, 1, 0, 16, 1, 7, 34, 28, 35, 29, 19, 7, 26, 22, 23,
     24, 20, 23, 22, 5, 30, 22, 24, 37, 28, 17, 24, 16, 22, 25, 36, 14, 33, 34,
     18, 4, 40, 21, 26, 40, 12, 27, 29, 28, 10, 17, 32, 2, 37, 22, 37, 20, 24,
     23, 16, 3, 19, 27, 28, 17, 37, 10, 33, 15, 30, 17, 36, 36, 7, 12, 20, 7,
     17, 41, 30, 9, 40, 4, 15, 24, 14, 27, 28, 32, 19, 16, 20, 14, 11, 11, 26,
     32, 38, 10, 25, 18, 19, 41, 8, 22, 23, 31, 13, 8, 9, 27, 36, 2, 31, 31,
     19, 7, 0, 26, 34, 11, 33, 31, 32, 40, 34, 0, 5, 19, 10, 2, 13, 35, 15, 36,
     15, 12, 18, 2, 32, 34, 22, 36, 25, 22, 32, 15, 21, 16, 27, 5, 30, 40, 1,
     41, 26, 26, 1, 18, 16, 23, 17, 23, 23, 16, 29, 33, 15, 25, 18, 1, 8, 41,
     36, 30, 38, 7, 26, 0, 17, 24, 14, 11, 3, 38, 34, 15, 5, 23, 39, 3, 15, 39,
     25, 26, 8, 0, 0, 32, 27, 32, 8, 6, 30, 13, 6, 31, 12, 21, 0, 3, 32, 20,
     35, 37, 19, 15, 2, 27, 41, 33, 5, 12, 39, 22, 24, 11, 27, 16, 18, 0, 28,
     38, 19, 12, 13, 9, 37, 27, 25, 40, 25, 13, 2, 3, 35, 7, 24, 17, 23, 38, 7,
     26, 4, 22, 9, 2, 30, 0, 21, 26, 4, 13, 28, 9, 25, 0, 10, 40, 10, 4, 2, 31,
     17, 0, 4, 21, 36, 12, 20, 7, 15, 41, 8, 12, 18, 8, 10, 27, 17, 6, 11, 35,
     12, 14, 16, 40, 33, 24, 40, 25, 25, 12, 9, 13, 33, 6, 3, 22, 11, 10, 19,
     37, 7, 32, 30, 28, 16, 0, 31, 19, 4, 40, 41, 38, 10, 7, 6, 12, 34, 29, 5,
     7, 19, 17, 33, 18, 2, 34, 10, 13, 10, 31, 3, 15, 7, 22, 0, 15, 5, 1, 22,
     10, 2, 32, 17, 13, 41, 26, 15, 37, 15, 18, 22, 38, 18, 19, 40, 27, 30, 5,
     26, 7, 20, 13, 28, 0, 36, 31, 18, 34, 38, 25, 35, 29, 25, 3, 31, 8, 29,
     10, 37, 11, 1, 4, 0, 29, 27, 40, 21, 32, 35, 7, 4, 17, 10, 14, 9, 21, 34,
     10, 26, 26, 29, 8, 36, 18, 11, 1, 27, 20, 0, 31, 14, 35, 4, 8, 11, 17, 0,
     38, 0, 3, 41, 21, 7, 15, 28, 9, 20, 19, 4, 41, 27, 41, 25, 39, 0, 1, 7,
     20, 41, 41, 29, 5, 19, 36, 3, 36, 41, 4, 30, 10, 23, 29, 8, 34, 10, 8, 0,
     15, 22, 24, 32, 29, 11, 35, 29, 11, 20, 14, 21, 29, 3, 37, 0, 1, 40, 34,
     27, 38, 27, 40, 19, 4, 38, 10, 19, 13, 16, 35, 27, 10, 20, 20, 38, 13, 5,
     2, 34, 20, 10, 41, 41, 11, 31, 26, 41, 27, 33, 14, 37, 40, 24, 33, 25, 13,
     25, 35, 28, 39, 24, 2, 33, 1, 29, 14, 41, 2, 32, 25, 13, 18, 10, 14, 10,
     25, 38, 40, 27, 41, 40, 39, 21, 33, 30, 0, 37, 18, 17, 9, 32, 21, 24, 10,
     37, 6, 33, 6, 14, 9, 7, 34, 11, 4, 32, 26, 40, 33, 0, 25, 6, 18, 41, 11,
     23, 27, 17, 10, 7, 29, 34, 8, 0, 26, 24, 27, 6, 40, 35, 22, 38, 28, 31, 4,
     21, 2, 6, 18, 36, 17, 41, 4, 16, 4, 14, 10, 16, 1, 37, 31, 2, 4, 3, 32,
     18, 24, 17, 35, 18, 28, 38, 4, 5, 38, 30, 9, 14, 0, 6, 19, 16, 28, 29, 22,
     39, 21, 11, 25, 18, 32, 24, 24, 5, 34, 39, 15, 36, 17, 22, 38, 14, 7, 18,
     5, 13, 3, 12, 28, 12, 38, 7, 19, 9, 37, 31, 1, 16, 1, 2, 36, 18, 41, 32,
     30, 29, 13, 10, 3, 10, 39, 38, 10, 5, 0, 0, 6, 41, 37, 25, 4, 15, 26, 2,
     24, 35, 29, 32, 35, 10, 0, 12, 41, 5, 16, 4, 28, 20, 29, 41, 8, 4, 7, 10,
     5, 8, 9, 18, 3, 38, 34, 30, 22, 25, 12, 4, 36, 32, 23, 25, 15, 40, 27, 16,
     27, 26, 32, 21, 41, 38, 3, 9, 30, 16, 7, 30, 14, 38, 10, 3, 26, 36, 8, 39,
     29, 20, 29, 30, 25, 25, 31, 40, 2, 33, 27, 16, 29, 3, 29, 14, 0, 27, 30,
     9, 33, 14, 21, 12, 38, 29, 23, 16, 1, 26, 35, 40, 41, 22, 32, 15, 33, 16,
     26, 3, 27, 20, 9, 10, 8, 37, 18, 20, 41, 12, 29, 3, 2, 17, 3, 20, 29, 40,
     14, 30, 34, 17, 19, 21, 33, 33, 18, 14, 36, 30, 35, 11, 32, 23, 5, 41, 28,
     8, 33, 3, 3, 31, 2, 38, 8, 18, 13, 38, 8, 18, 33, 41, 2, 10, 3, 22, 35,
     32, 35, 17, 11, 31, 38, 4, 16, 25, 25, 19, 36, 14, 1, 15, 25, 11, 15, 9,
     13, 5, 9, 36, 26, 35, 28, 19, 34, 19, 27, 9, 28, 21, 10, 34, 18, 23, 28,
     37, 34, 16, 20, 0, 19, 19, 41, 24, 18, 4, 15, 25, 12, 34, 23, 31, 11, 20,
     13, 28, 26, 20, 8, 31, 16, 10, 24, 36, 3, 22, 15, 12, 19, 23, 1, 37, 34,
     32, 0, 17, 7, 26, 8, 31, 7, 8, 30, 11, 31, 30, 0, 23, 5, 34, 25, 9, 1, 15,
     24, 12, 20, 32, 22, 38, 17, 40, 27, 3, 20, 11, 7, 4, 27, 26, 15, 17, 38,
     3, 12, 9, 40, 38, 16, 10, 7, 37, 19, 38, 17, 30, 23, 27, 26, 14, 25, 31,
     41, 13, 24, 31, 10, 24, 19, 24, 27, 27, 38, 2, 0, 36, 26, 32, 31, 1, 16,
     15, 29, 7, 32, 25, 16, 7, 14, 8, 7, 15, 7, 8, 19, 12, 17, 10, 16, 15, 26,
     32, 29, 35, 41, 13, 19, 25, 31, 10, 10, 6, 21, 16, 12, 41, 2, 22, 7, 30,
     31, 2, 8, 3, 17, 24, 27, 38, 3, 9, 14, 28, 15, 41, 4, 7, 39, 19, 12, 10,
     11, 30, 12, 3, 0, 5, 16, 37, 38, 34, 12, 4, 29, 40, 15, 37, 12, 5, 22, 24,
     5, 23, 7, 10, 27, 30, 33, 31, 10, 8, 38, 31, 26, 37, 15, 3, 19, 16, 23,
     39, 8, 36, 22, 20, 26, 19, 2, 18, 24, 36, 13, 16, 6, 19, 20, 0, 25, 15,
     33, 19, 1, 8, 3, 5, 9, 34, 21, 14, 5, 6, 21, 25, 10, 39, 34, 6, 5, 38, 38,
     31, 1, 7, 10, 40, 9, 40, 33, 29, 25, 2, 37, 36, 20, 3, 26, 35, 4, 2, 21,
     40, 15, 9, 22, 39, 26, 18, 32, 35, 21, 3, 9, 35, 18, 19, 28, 5, 8, 33, 0,
     28, 39, 29, 13, 13, 27, 34, 40, 35, 11, 12, 41, 19, 35, 5, 6, 8, 6, 11,
     25, 29, 24, 29, 24, 13, 14, 34, 25, 25, 13, 31, 29, 0, 32, 19, 38, 30, 29,
     25, 17, 35, 25, 7, 23, 34, 24, 28, 24, 8, 26, 14, 24, 15, 2, 39, 31, 19,
     31, 32, 28, 39, 3, 8, 39, 13, 13, 1, 24, 32, 38, 40, 39, 15, 37, 7, 38,
     26, 6, 12, 4, 15, 14, 6, 25, 23, 1, 30, 14, 29, 31, 30, 12, 11, 19, 35,
     38, 23, 32, 38, 11, 33, 20, 4, 0, 31, 6, 0, 30, 32, 15, 39, 10, 27, 27,
     33, 37, 36, 26, 24, 29, 34, 13, 28, 30, 27, 10, 22, 3, 24, 1, 5, 35, 21,
     3, 13, 18, 12, 5, 41, 34, 38, 40, 22, 8, 21, 34, 25, 20, 20, 4, 21, 19,
     21, 25, 27, 13, 4, 19, 30, 38, 1, 20, 19, 10, 16, 9, 28, 35, 22, 33, 1,
     40, 4, 27, 19, 18, 9, 16, 15, 26, 36, 23, 0, 33, 25, 1, 24, 18, 11, 9, 15,
     29, 35, 37, 4, 40, 10, 20, 9, 34, 35, 24, 30, 1, 20, 28, 39, 4, 2, 37, 19,
     10, 34, 18, 30, 1, 2, 19, 0, 18, 38, 41, 20, 28, 5, 5, 7, 24, 38, 26, 22,
     22, 16, 22, 8, 34, 9, 12, 34, 40, 19, 38, 12, 39, 40, 41, 29, 26, 19, 26,
     34, 17, 19, 34, 8, 7, 8, 14, 8, 17, 33, 30, 33, 17, 32, 9, 33, 3, 21, 26,
     11, 7, 21, 39, 19, 40, 33, 17, 30, 11, 25, 10, 37, 2, 32, 34, 26, 16, 14,
     10, 11, 16, 41, 0, 39, 27, 20, 19, 16, 17, 10, 31, 32, 2, 20, 7, 27, 28,
     36, 13, 31, 19, 8, 11, 31, 6, 15, 17, 0, 26, 38, 17, 18, 38, 2, 16, 10,
     41, 13, 0, 9, 29, 23, 31, 26, 39, 26, 34, 37, 5, 38, 12, 23, 29, 20, 23,
     3, 10, 5, 22, 23, 18, 8, 9, 22, 8, 13, 28, 4, 2, 27, 16, 17, 41, 1, 16,
     41, 3, 36, 11, 6, 0, 13, 31, 22, 36, 34, 7, 38, 31, 38, 6, 14, 8, 24, 0,
     24, 34, 37, 34, 22, 0, 11, 4, 40, 21, 4, 25, 23, 26, 15, 22, 1, 38, 38,
     22, 4, 11, 21, 16, 16, 36, 21, 8, 0, 2, 11, 31, 26, 13, 31, 37, 30, 4, 22,
     6, 9, 31, 41, 1, 18, 8, 25, 38, 1, 16, 36, 28, 2, 37, 28, 28, 20, 21, 4,
     9, 6, 6, 15, 34, 36, 41, 26, 8, 4, 21, 32, 29, 25, 23, 35, 0, 14, 22, 7,
     29, 14, 7, 9, 34, 2, 18, 9, 33, 3, 29, 8, 19, 37, 35, 31, 36, 35, 21, 28,
     2, 35, 37, 20, 12, 37, 4, 35, 41, 24, 16, 38, 10, 25, 8, 35, 29, 32, 28,
     21, 11, 41, 37, 20, 11, 1, 40, 39, 2, 19, 11, 34, 41, 34, 24, 10, 23, 8,
     21, 13, 1, 29, 9, 10, 22, 28, 18, 29, 18, 23, 36, 0, 40, 12, 29, 10, 9,
     27, 37, 40, 22, 11, 3, 11, 36, 17, 17, 37, 20, 34, 27, 6, 21, 35, 31, 15,
     8, 30, 4, 13, 25, 39, 16, 40, 29, 8, 38, 21, 15, 37, 7, 17, 3, 22, 21, 41,
     33, 11, 36, 36, 3, 8, 6, 32, 29, 10, 29, 8, 27, 24, 16, 25, 1, 5, 19, 34,
     17, 25, 30, 30, 33, 23, 0, 6, 17, 22, 25, 1, 7, 9, 21, 10, 17, 32, 3, 14,
     33, 4, 14, 15, 41, 41, 26, 20, 2, 34, 1, 4, 2, 31, 25, 36, 7, 15, 29, 21,
     13, 24, 24, 38, 10, 15, 23, 16, 14, 22, 6, 29, 15, 38, 9, 39, 22, 29, 23,
     9, 7, 15, 4, 40, 26, 20, 34, 29, 18, 6, 9, 37, 32, 7, 15, 16, 25, 15, 23,
     11, 18, 20, 23, 25, 11, 7, 0, 27, 24, 31, 20, 37, 8, 4, 36, 1, 10, 39, 1,
     25, 20, 13, 41, 31, 7, 29, 18, 0, 8, 23, 37, 36, 24, 3, 20, 22, 4, 27, 16,
     30, 3, 24, 7, 11, 28, 19, 33, 27, 36, 6, 31, 34, 32, 0, 32, 28, 0, 18, 0,
     24, 33, 1, 18, 35, 23, 27, 23, 23, 11, 24, 35, 27, 30, 27, 12, 12, 34, 21,
     30, 21, 14, 30, 0, 40, 28, 11, 2, 4, 18, 19, 0, 23, 29, 35, 15, 16, 1, 24,
     32, 18, 13, 6, 39, 36, 32, 39, 12, 30, 33, 4, 39, 16, 11, 28, 10, 3, 9,
     32, 6, 34, 1, 9, 19, 21, 41, 17, 31, 26, 13, 41, 34, 16, 14, 12, 3, 16,
     17, 4, 28, 3, 2, 5, 12, 6, 1, 35, 12, 20, 39, 9, 22, 15, 18, 35, 8, 18,
     32, 37, 33, 0, 21, 9, 7, 29, 38, 13, 35, 32, 40, 23, 25, 36, 13, 12, 12,
     21, 2, 18, 35, 39, 34, 36, 26, 0, 33, 18, 38, 13, 39, 9, 34, 17, 3, 29, 5,
     19, 2, 39, 24, 2, 25, 30, 2, 3, 5, 24, 36, 28, 27, 4, 20, 26, 9, 4, 15,
     16, 22, 17, 10, 31, 2, 17, 3, 2, 4, 6, 26, 10, 41, 1, 21, 8, 40, 8, 20,
     23, 5, 25, 25, 3, 19, 11, 41, 28, 22, 38, 28, 26, 31, 2, 16, 32, 16, 27,
     6, 36, 36, 3, 38, 17, 34, 10, 40, 39, 11, 38, 23, 21, 33, 12, 37, 24, 17,
     33, 28, 11, 30, 7, 17, 7, 10, 30, 39, 6, 9, 17, 2, 9, 13, 11, 14, 0, 37,
     23, 21, 38, 27, 26, 11, 20, 35, 26, 36, 20, 41, 24, 16, 14, 35, 4, 24, 1,
     9, 17, 34, 26, 20, 33, 11, 25, 30, 5, 38, 31, 9, 0, 2, 1, 33, 37, 9, 41,
     36, 27, 25, 19, 23, 24, 38, 28, 17, 0, 20, 17, 26, 16, 0, 21, 41, 13, 23,
     33, 6, 21, 40, 41, 11, 41, 3, 3, 26, 25, 28, 22, 6, 37, 38, 9, 16, 4, 25,
     25, 37, 37, 16, 23, 32, 31, 38, 37, 7, 26, 8, 6, 19, 23, 29, 41, 19, 33,
     21, 13, 38, 12, 16, 17, 37, 5, 22, 4, 33, 34, 28, 25, 10, 18, 30, 14, 1,
     19, 19, 11, 17, 19, 10, 19, 37, 10, 7, 30, 27, 20, 3, 25, 40, 17, 26, 41,
     37, 1, 7, 7, 26, 22, 33, 15, 20, 15, 11, 38, 13, 28, 8, 9, 25, 4, 26, 25,
     41, 24, 30, 2, 3, 40, 40, 23, 3, 20, 41, 6, 13, 38, 9, 5, 16, 26, 21, 22,
     39, 12, 31, 31, 3, 22, 5, 23, 41, 9, 16, 3, 5, 27, 26, 20, 35, 0, 0, 24,
     8, 25, 2, 29, 14, 18, 27, 8, 20, 41, 10, 19, 25, 0, 15, 4, 28, 6, 0, 22,
     12, 27, 21, 9, 36, 10, 31, 36, 5, 2, 36, 32, 4, 9, 41, 10, 34, 5, 14, 21,
     4, 22, 23, 14, 17, 22, 25, 37, 23, 34, 38, 23, 17, 28, 2, 2, 17, 7, 31,
     26, 23, 35, 4, 37, 31, 29, 13, 6, 10, 13, 33, 33, 6, 39, 40, 31, 30, 35,
     5, 24, 31, 19, 39, 37, 8, 22, 2, 4, 2, 22, 30, 25, 37, 25, 24, 31, 21, 16,
     27, 2, 27, 34, 29, 1, 28, 3, 0, 13, 2, 5, 30, 26, 3, 31, 10, 41, 5, 0, 2,
     6, 36, 21, 11, 1, 1, 20, 17, 34, 3, 33, 30, 13, 28, 8, 6, 6, 5, 37, 33,
     32, 30, 37, 40, 38, 8, 33, 37, 34, 25, 31, 34, 34, 39, 13, 13, 0, 26, 25,
     9, 19, 18, 35, 8, 38, 27, 30, 2, 39, 29, 39, 35, 17, 4, 1, 27, 3, 12, 41,
     33, 32, 1, 24, 10, 18, 11, 11, 34, 13, 0, 9, 20, 1, 40, 33, 10, 4, 17, 18,
     15, 38, 14, 13, 7, 17, 20, 31, 33, 33, 34, 12, 30, 16, 25, 8, 15, 7, 3,
     28, 17, 14, 37, 8, 1, 5, 12, 6, 10, 31, 41, 15, 20, 1, 2, 28, 19, 23, 8,
     41, 30, 39, 25, 12, 1, 16, 8, 7, 40, 20, 25, 18, 25, 15, 6, 11, 24, 34,
     15, 4, 20, 31, 23, 6, 35, 20, 35, 7, 20, 2, 10, 24, 36, 25, 1, 7, 2, 9,
     23, 20, 31, 34, 8, 3, 5, 37, 33, 41, 41, 5, 3, 25, 11, 33, 6, 20, 28, 13,
     22, 39, 33, 25, 22, 22, 36, 18, 37, 21, 3, 25, 1, 18, 40, 25, 33, 13, 0,
     4, 1, 18, 37, 39, 28, 40, 21, 8, 26, 38, 20, 41, 39, 37, 36, 37, 35, 24,
     8, 41, 29, 5, 3, 11, 6, 41, 36, 26, 4, 3, 36, 3, 4, 41, 2, 1, 6, 18, 4,
     27, 37, 36, 36, 33, 18, 10, 27, 0, 6, 15, 20, 24, 21, 41, 23, 38, 3, 15,
     1, 17, 40, 3, 41, 6, 41, 31, 28, 23, 12, 0, 37, 33, 12, 15, 11, 29, 1, 18,
     40, 5, 40, 23, 18, 33, 27, 32, 20, 26, 5, 15, 28, 7, 11, 7, 11, 2, 26, 18,
     2, 23, 1, 6, 2, 3, 9, 13, 27, 25, 1, 24, 33, 9, 15, 38, 24, 38, 10, 16,
     38, 18, 2, 27, 35, 37, 30, 20, 7, 34, 25, 19, 33, 19, 21, 18, 9, 38, 16,
     8, 22, 28, 13, 21, 36, 10, 39, 26, 29, 2, 40, 33, 33, 38, 26, 14, 1, 39,
     28, 36, 38, 27, 41, 41, 35, 37, 35, 23, 17, 11, 10, 38, 28, 35, 18, 38,
     13, 16, 26, 20, 10, 34, 22, 8, 25, 40, 33, 18, 13, 13, 38, 16, 14, 31, 3,
     2, 4, 16, 34, 25, 35, 3, 4, 30, 36, 37, 3, 26, 23, 24, 37, 16, 20, 30, 39,
     28, 33, 29, 17, 1, 11, 12, 39, 20, 12, 33, 3, 31, 39, 14, 8, 8, 7, 1, 30,
     2, 0, 12, 17, 22, 5, 19, 4, 29, 14, 19, 23, 25, 29, 16, 2, 11, 0, 15, 18,
     25, 29, 37, 30, 9, 25, 18, 19, 22, 32, 12, 3, 29, 15, 28, 7, 34, 27, 25,
     36, 8, 41, 17, 0, 21, 16, 19, 40, 23, 25, 6, 1, 0, 24, 14, 39, 15, 26, 15,
     19, 3, 3, 41, 31, 7, 17, 1, 33, 35, 15, 20, 22, 8, 33, 9, 29, 11, 3, 38,
     23, 21, 1, 40, 28, 15, 31, 14, 31, 4, 23, 26, 37, 35, 12, 33, 14, 38, 29,
     26, 11, 20, 37, 12, 41, 36, 31, 40, 36, 13, 22, 8, 16, 30, 16, 34, 10, 24,
     34, 10, 31, 40, 1, 38, 32, 8, 26, 41, 24, 35, 28, 15, 37, 23, 20, 36, 30,
     39, 28, 27, 20, 6, 21, 11, 40, 7, 22, 1, 26, 31, 16, 29, 5, 27, 16, 41,
     26, 38, 25, 13, 36, 17, 26, 12, 30, 37, 12, 16, 0, 38, 39, 21, 13, 39, 31,
     31, 26, 28, 38, 15, 37, 22, 28, 16, 37, 17, 1, 30, 17, 32, 1, 5, 34, 1,
     29, 32, 25, 0, 1, 4, 36, 32, 39, 28, 24, 34, 25, 25, 27, 9, 4, 17, 27, 41,
     10, 10, 35, 24, 11, 23, 39, 1, 32, 29, 23, 32, 1, 37, 12, 35, 21, 6, 26,
     36, 18, 22, 29, 37, 10, 3, 13, 2, 9, 19, 13, 8, 34, 26, 31, 40, 21, 8, 19,
     13, 11, 24, 0, 5, 17, 17, 33, 16, 5, 38, 20, 38, 12, 10, 29, 5, 6, 34, 14,
     22, 2, 39, 41, 34, 21, 13, 2, 39, 38, 4, 14, 34, 8, 34, 21, 35, 11, 34,
     11, 35, 34, 32, 25, 27, 29, 19, 16, 22, 6, 37, 21, 17, 20, 37, 25, 4, 35,
     6, 40, 11, 7, 12, 16, 36, 37, 37, 8, 7, 27, 3, 33, 8, 40, 8, 37, 6, 40,
     34, 16, 0, 23, 25, 36, 23, 39, 12, 17, 17, 41, 41, 29, 23, 19, 24, 4, 32,
     4, 9, 39, 12, 3, 24, 6, 41, 15, 35, 30, 33, 21, 16, 17, 0, 11, 9, 5, 38,
     3, 6, 17, 22, 1, 14, 13, 3, 33, 33, 1, 6, 32, 8, 38, 15, 22, 3, 25, 19,
     10, 11, 27, 4, 4, 10, 7, 20, 40, 2, 23, 26, 32, 40, 26, 21, 12, 33, 14, 3,
     20, 17, 19, 13, 37, 28, 26, 30, 27, 37, 8, 32, 32, 15, 2, 2, 16, 26, 24,
     32, 20, 29, 12, 10, 35, 4, 6, 23, 3, 4, 18, 33, 24, 15, 38, 32, 14, 17,
     13, 32, 22, 0, 22, 33, 38, 35, 41, 0, 36, 26, 10, 28, 18, 32, 6, 33, 17,
     16, 12, 4, 9, 27, 9, 22, 10, 26, 9, 26, 35, 3, 17, 4, 16, 37, 24, 41, 32,
     4, 8, 21, 39, 27, 14, 9, 1, 38, 26, 9, 11, 27, 0, 27, 28, 12, 6, 15, 20,
     8, 37, 0, 17, 36, 5, 13, 32, 23, 21, 40, 9, 33, 14, 19, 41, 19, 25, 21,
     18, 23, 24, 35, 7, 25, 12, 11, 29, 39, 37, 11, 19, 6, 22, 14, 17, 38, 6,
     24, 41, 40, 33, 28, 41, 23, 31, 31, 7, 17, 19, 39, 31, 41, 6, 16, 3, 26,
     36, 34, 6, 30, 1, 1, 13, 9, 38, 35, 5, 20, 26, 41, 16, 20, 4, 10, 14, 40,
     2, 4, 24, 11, 19, 3, 22, 1, 8, 23, 37, 20, 26, 37, 33, 33, 35, 35, 11, 5,
     31, 10, 28, 10, 5, 23, 11, 13, 0, 40, 39, 19, 38, 11, 25, 24, 24, 23, 3,
     29, 17, 6, 33, 22, 8, 31, 26, 20, 19, 38, 0, 6, 23, 13, 8, 41, 15, 12, 11,
     6, 32, 25, 21, 17, 38, 7, 17, 13, 33, 3, 38, 33, 38, 13, 19, 19, 33, 21,
     11, 34, 11, 29, 11, 21, 3, 2, 24, 22, 23, 20, 28, 28, 41, 21, 30, 13, 2,
     10, 36, 38, 15, 39, 14, 4, 20, 33, 28, 29, 29, 10, 35, 32, 6, 17, 40, 38,
     5, 19, 36, 9, 12, 18, 36, 28, 2, 19, 27, 2, 25, 15, 28, 20, 19, 37, 41,
     12, 10, 33, 13, 32, 30, 37, 14, 0, 27, 18, 38, 32, 15, 33, 31, 38, 24, 31,
     40, 32, 18, 32, 24, 13, 38, 26, 34, 0, 12, 8, 37, 14, 32, 36, 21, 36, 23,
     40, 36, 7, 37, 40, 30, 25, 13, 8, 20, 23, 21, 12, 8, 0, 28, 21, 40, 11,
     22, 9, 3, 40, 36, 14, 36, 15, 6, 28, 38, 15, 36, 35, 33, 31, 28, 8, 4, 15,
     34, 5, 39, 0, 23, 25, 23, 36, 21, 32, 41, 30, 14, 22, 27, 39, 10, 0, 11,
     7, 15, 15, 26, 17, 12, 3, 9, 40, 33, 14, 2, 6, 27, 10, 3, 23, 26, 20, 31,
     18, 9, 7, 27, 16, 2, 3, 41, 16, 10, 4, 40, 18, 7, 24, 2, 11, 29, 15, 2,
     41, 35, 5, 2, 6, 10, 20, 36, 40, 34, 25, 28, 26, 19, 24, 22, 8, 22, 5, 37,
     13, 5, 13, 10, 9, 34, 7, 35, 21, 10, 16, 24, 23, 16, 21, 35, 14, 14, 3,
     14, 33, 10, 30, 7, 38, 0, 12, 6, 40, 1, 41, 38, 34, 12, 41, 31, 21, 21,
     22, 32, 39, 34, 27, 13, 1, 33, 17, 32, 33, 32, 41, 13, 3, 22, 21, 25, 8,
     8, 22, 2, 19, 33, 36, 4, 30, 27, 40, 8, 16, 23, 4, 33, 8, 2, 4, 31, 3, 38,
     37, 0, 2, 8, 4, 5, 2, 38, 12, 41, 17, 8, 6, 33, 25, 13, 26, 9, 34, 26, 40,
     37, 19, 37, 29, 1, 0, 25, 7, 18, 9, 11, 39, 18, 8, 12, 27, 11, 38, 39, 1,
     13, 20, 41, 19, 23, 1, 15, 19, 4, 28, 9, 30, 27, 16, 26, 35, 21, 39, 17,
     40, 1, 39, 32, 41, 24, 20, 4, 20, 17, 4, 34, 11, 1, 36, 0, 25, 9, 39, 10,
     2, 27, 35, 14, 5, 2, 21, 31, 33, 34, 6, 37, 0, 21, 6, 23, 0, 27, 17, 19,
     14, 20, 31, 0, 13, 23, 13, 11, 12, 27, 16, 38, 4, 35, 40, 20, 29, 20, 27,
     14, 7, 13, 23, 16, 4, 13, 0, 8, 28, 2, 41, 36, 27, 32, 25, 3, 9, 29, 10,
     34, 2, 37, 11, 22, 29, 1, 18, 21, 34, 25, 16, 20, 16, 18, 11, 35, 30, 16,
     39, 19, 1, 4, 25, 21, 11, 37, 20, 14, 3, 34, 27, 13, 12, 20, 12, 23, 13,
     13, 14, 32, 21, 22, 6, 14, 12, 24, 8, 12, 11, 39, 30, 18, 32, 39, 9, 40,
     8, 11, 29, 2, 38, 22, 28, 23, 13, 1, 21, 29, 34, 37, 2, 34, 9, 19, 33, 29,
     8, 0, 31, 31, 1, 33, 31, 31, 9, 19, 32, 38, 2, 1, 34, 5, 3, 18, 32, 28,
     26, 41, 32, 0, 19, 32, 28, 0, 8, 39, 32, 17, 39, 39, 34, 7, 0, 27, 0, 29,
     0, 19, 29, 40, 30, 37, 10, 32, 30, 38, 7, 37, 14, 14, 11, 41, 26, 11, 36,
     6, 39, 33, 15, 17, 4, 3, 37, 24, 41, 25, 25, 8, 35, 22, 13, 39, 3, 4, 16,
     23, 25, 30, 19, 4, 3, 34, 41, 41, 26, 28, 2, 4, 4, 2, 11, 9, 2, 40, 40,
     31, 15, 25, 37, 37, 27, 21, 19, 29, 1, 40, 7, 9, 5, 26, 17, 19, 22, 34, 7,
     27, 40, 31, 24, 33, 33, 20, 10, 38, 41, 31, 13, 22, 28, 2, 7, 11, 2, 12,
     1, 4, 14, 21, 14, 33, 31, 15, 33, 20, 2, 15, 14, 7, 3, 7, 30, 41, 15, 7,
     0, 18, 26, 25, 36, 26, 22, 20, 9, 19, 20, 0, 30, 40, 4, 35, 40, 7, 37, 13,
     25, 4, 30, 35, 25, 40, 6, 10, 34, 36, 4, 1, 25, 0, 34, 16, 28, 13, 4, 21,
     5, 26, 12, 19, 30, 30, 27, 25, 35, 40, 17, 23, 12, 8, 10, 39, 20, 14, 4,
     8, 30, 20, 20, 14, 3, 9, 10, 14, 17, 26, 37, 25, 6, 7, 25, 30, 17, 11, 23,
     22, 25, 9, 36, 8, 12, 13, 0, 29, 32, 22, 39, 41, 15, 16, 23, 17, 10, 1,
     24, 38, 23, 6, 21, 22, 13, 6, 11, 6, 36, 9, 2, 11, 4, 18, 26, 13, 12, 34,
     9, 9, 2, 30, 1, 21, 25, 34, 27, 18, 26, 14, 24, 0, 39, 30, 20, 14, 18, 26,
     8, 8, 39, 28, 24, 13, 6, 21, 6, 41, 4, 19, 21, 25, 39, 13, 3, 0, 25, 34,
     20, 8, 0, 29, 24, 16, 35, 37, 17, 22, 24, 30, 4, 4, 31, 16, 34, 11, 24,
     24, 35, 27, 23, 34, 22, 13, 5, 28, 30, 31, 11, 13, 32, 31, 13, 0, 4, 39,
     15, 13, 25, 40, 26, 30, 21, 26, 14, 0, 13, 35, 39, 16, 18, 30, 13, 39, 15,
     8, 35, 20, 7, 28, 31, 21, 24, 32, 32, 16, 31, 0, 4, 34, 10, 18, 20, 31,
     26, 3, 40, 29, 8, 39, 33, 31, 0, 5, 10, 11, 5, 37, 4, 14, 27, 23, 29, 13,
     40, 20, 24, 15, 32, 7, 32, 4, 8, 2, 30, 13, 37, 2, 21, 7, 21, 33, 5, 33,
     3, 41, 9, 11, 30, 31, 19, 37, 22, 19, 29, 39, 36, 8, 37, 4, 39, 30, 20, 6,
     27, 35, 22, 30, 22, 40, 12, 3, 5, 32, 18, 31, 28, 36, 25, 34, 9, 14, 23,
     22, 9, 14, 35, 7, 6, 11, 19, 15, 16, 17, 2, 39, 38, 19, 11, 36, 33, 34,
     41, 28, 9, 41, 16, 5, 36, 30, 29, 39, 33, 26, 13, 20, 26, 37, 15, 39, 34,
     28, 8, 38, 16, 16, 37, 35, 22, 36, 2, 28, 1, 32, 14, 40, 38, 38, 36, 10,
     12, 15, 31, 34, 17, 17, 14, 6, 27, 30, 10, 23, 25, 20, 16, 34, 16, 27, 7,
     2, 21, 40, 17, 13, 30, 9, 19, 21, 19, 0, 25, 4, 15, 33, 24, 35, 9, 1, 14,
     24, 25, 22, 17, 20, 41, 6, 24, 40, 14, 33, 0, 35, 5, 14, 14, 12, 35, 39,
     6, 32, 12, 11, 31, 31, 10, 33, 5, 39, 14, 13, 41, 19, 38, 16, 3, 19, 40,
     18, 31, 3, 21, 17, 36, 32, 33, 25, 7, 21, 19, 6, 28, 4, 16, 4, 17, 24, 14,
     18, 26, 25, 27, 18, 19, 1, 29, 17, 36, 32, 32, 26, 28, 26, 39, 36, 9, 12,
     22, 17, 22, 25, 1, 24, 41, 7, 32, 13, 29, 39, 1, 11, 38, 3, 33, 2, 8, 35,
     20, 35, 11, 21, 28, 40, 27, 28, 7, 9, 3, 32, 9, 8, 4, 20, 41, 41, 3, 20,
     6, 5, 24, 4, 20, 16, 4, 41, 20, 41, 15, 30, 33, 19, 30, 41, 21, 25, 25, 5,
     39, 40, 16, 38, 15, 29, 1, 5, 18, 24, 24, 18, 19, 1, 40, 6, 34, 29, 18, 6,
     9, 24, 4, 24, 12, 41, 39, 15, 12, 6, 15, 16, 15, 38, 41, 0, 3, 17, 22, 8,
     25, 41, 6, 0, 25, 34, 25, 35, 25, 5, 27, 19, 40, 25, 16, 35, 26, 40, 37,
     38, 3, 36, 36, 2, 39, 16, 7, 35, 14, 14, 4, 8, 31, 23, 10, 34, 8, 0, 17,
     14, 39, 18, 8, 29, 24, 26, 13, 34, 26, 7, 5, 39, 37, 24, 33, 38, 16, 1,
     20, 17, 31, 28, 11, 13, 22, 5, 41, 14, 31, 28, 20, 6, 41, 11, 24, 41, 1,
     17, 0, 12, 34, 12, 3, 9, 41, 1, 5, 29, 34, 8, 20, 37, 23, 37, 38, 33, 25,
     25, 31, 35, 3, 0, 38, 29, 13, 4, 24, 25, 31, 6, 27, 15, 24, 31, 13, 40, 7,
     22, 6, 14, 28, 28, 27, 18, 17, 16, 21, 32, 19, 10, 27, 5, 13, 15, 26, 3,
     9, 30, 4, 36, 34, 27, 30, 23, 37, 20, 10, 29, 26, 6, 28, 19, 34, 41, 6,
     26, 4, 18, 4, 36, 36, 30, 40, 23, 31, 3, 41, 35, 6, 32, 40, 27, 5, 19, 23,
     22, 23, 23, 27, 18, 34, 31, 18, 3, 19, 36, 33, 33, 9, 5, 0, 27, 17, 4, 35,
     14, 33, 5, 37, 28, 30, 22, 23, 10, 2, 22, 9, 25, 21, 40, 23, 39, 32, 37,
     22, 25, 11, 25, 5, 8, 31, 25, 29, 26, 21, 11, 2, 41, 15, 40, 41, 36, 21,
     26, 22, 40, 22, 23, 26, 5, 28, 26, 2, 20, 34, 10, 39, 36, 26, 21, 23, 34,
     36, 26, 21, 36, 19, 29, 19, 26, 25, 40, 39, 16, 27, 30, 11, 8, 12, 28, 25,
     25, 31, 18, 41, 17, 28, 16, 19, 3, 22, 2, 36, 18, 41, 14, 23, 16, 30, 27,
     6, 8, 12, 14, 8, 31, 17, 37, 2, 30, 38, 7, 23, 35, 4, 36, 19, 37, 24, 36,
     21, 6, 10, 1, 34, 27, 32, 26, 21, 35, 5, 35, 5, 37, 0, 4, 27, 26, 34, 11,
     12, 26, 29, 3, 11, 40, 9, 33, 4, 20, 34, 15, 9, 30, 30, 6, 25, 18, 2, 31,
     27, 34, 29, 12, 28, 6, 31, 41, 39, 0, 41, 40, 5, 7, 37, 7, 34, 18, 38, 21,
     40, 27, 24, 5, 34, 28, 1, 8, 35, 7, 26, 7, 8, 0, 30, 16, 26, 11, 5, 35, 5,
     18, 12, 29, 3, 11, 41, 0, 14, 31, 7, 35, 11, 10, 39, 6, 5, 16, 15, 26, 18,
     40, 37, 28, 1, 32, 14, 22, 8, 6, 38, 24, 37, 41, 27, 31, 40, 7, 16, 14,
     17, 12, 6, 32, 30, 11, 24, 21, 14, 18, 31, 37, 7, 14, 35, 2, 33, 26, 3,
     39, 8, 3, 35, 33, 39, 1, 7, 20, 15, 29, 34, 17, 0, 7, 11, 25, 20, 29, 20,
     22, 8, 36, 21, 25, 13, 36, 41, 16, 17, 29, 30, 22, 38, 41, 21, 25, 10, 13,
     2, 31, 15, 8, 33, 34, 6, 15, 9, 18, 36, 37, 25, 37, 15, 18, 22, 17, 20,
     36, 26, 29, 21, 23, 0, 40, 14, 3, 18, 9, 30, 2, 34, 1, 1, 5, 29, 21, 8,
     30, 2, 21, 19, 15, 17, 10, 22, 5, 1, 30, 0, 23, 38, 2, 5, 38, 41, 28, 36,
     36, 14, 18, 28, 40, 38, 24, 12, 25, 17, 23, 11, 40, 34, 22, 14, 28, 3, 32,
     9, 41, 24, 17, 34, 18, 4, 32, 19, 5, 30, 16, 22, 21, 17, 28, 37, 24, 30,
     22, 9, 31, 15, 28, 34, 8, 27, 31, 38, 31, 17, 24, 25, 33, 22, 10, 25, 39,
     25, 20, 19, 39, 35, 27, 25, 7, 10, 18, 18, 22, 30, 36, 13, 30, 27, 16, 22,
     24, 5, 8, 2, 27, 41, 21, 38, 26, 10, 16, 25, 22, 8, 33, 12, 21, 7, 27, 20,
     2, 38, 7, 4, 2, 23, 2, 15, 22, 30, 24, 32, 10, 16, 26, 25, 23, 12, 15, 28,
     5, 26, 1, 36, 22, 40, 5, 20, 33, 21, 19, 13, 37, 33, 29, 15, 2, 1, 24, 31,
     6, 30, 0, 14, 33, 35, 27, 32, 8, 2, 33, 13, 15, 11, 23, 30, 3, 12, 0, 7,
     27, 31, 32, 5, 29, 30, 33, 40, 20, 0, 3, 40, 19, 24, 32, 33, 33, 10, 4,
     41, 36, 18, 38, 22, 7, 21, 33, 26, 34, 11, 6, 21, 29, 40, 33, 8, 25, 7,
     10, 18, 24, 27, 28, 20, 34, 40, 28, 18, 18, 23, 34, 4, 36, 39, 39, 41, 6,
     22, 11, 38, 1, 21, 6, 16, 23, 13, 7, 28, 16, 29, 12, 28, 24, 27, 37, 31,
     34, 41, 24, 0, 33, 9, 22, 11, 22, 26, 23, 12, 9, 2, 31, 32, 38, 2, 30, 20,
     20, 0, 4, 7, 22, 31, 2, 26, 14, 11, 25, 14, 22, 7, 16, 37, 0, 13, 30, 34,
     8, 14, 2, 26, 41, 26, 9, 3, 28, 8, 1, 3, 23, 6, 37, 17, 9, 32, 1, 22, 21,
     22, 23, 12, 12, 5, 8, 2, 21, 18, 18, 3, 14, 27, 37, 4, 21, 12, 23, 15, 23,
     31, 17, 38, 22, 16, 6, 23, 36, 13, 2, 7, 28, 19, 21, 21, 23, 34, 32, 40,
     22, 11, 11, 14, 11, 15, 25, 18, 8, 8, 36, 0, 9, 10, 31, 19, 39, 32, 41, 5,
     35, 9, 11, 32, 6, 38, 9, 29, 0, 16, 12, 5, 27, 26, 1, 6, 32, 34, 28, 24,
     4, 31, 23, 32, 9, 18, 23, 12, 23, 11, 3, 32, 3, 7, 29, 34, 28, 12, 4, 38,
     1, 13, 10, 38, 19, 32, 5, 2, 13, 41, 5, 9, 21, 18, 3, 9, 19, 28, 7, 33,
     31, 27, 27, 0, 23, 3, 29, 4, 37, 41, 38, 21, 28, 23, 13, 15, 32, 5, 10,
     28, 1, 37, 31, 14, 15, 27, 17, 24, 0, 23, 29, 29, 29, 6, 21, 2, 3, 26, 31,
     27, 23, 9, 40, 7, 6, 20, 22, 10, 31, 38, 38, 29, 32, 20, 14, 32, 29, 11,
     29, 41, 27, 4, 25, 5, 18, 21, 27, 13, 32, 37, 24, 36, 7, 25, 22, 13, 5, 3,
     22, 18, 17, 6, 17, 29, 21, 27, 33, 6, 6, 9, 5, 10, 23, 1, 13, 39, 28, 3,
     38, 40, 9, 41, 13, 27, 23, 0, 5, 29, 15, 5, 38, 37, 26, 4, 5, 16, 34, 9,
     40, 2, 0, 1, 15, 34, 29, 10, 12, 19, 39, 17, 36, 10, 4, 8, 25, 7, 23, 1,
     22, 1, 38, 12, 24, 13, 5, 9, 23, 5, 27, 29, 11, 16, 17, 39, 20, 30, 19,
     24, 16, 6, 13, 24, 1, 31, 18, 22, 24, 12, 24, 23, 15, 27, 26, 26, 8, 34,
     12, 39, 18, 26, 5, 21, 29, 26, 14, 39, 40, 29, 14, 14, 12, 6, 19, 28, 40,
     10, 41, 6, 0, 21, 18, 28, 3, 27, 37, 18, 1, 31, 30, 20, 27, 39, 34, 33,
     25, 0, 2, 24, 39, 8, 19, 28, 8, 41, 12, 5, 21, 7, 25, 38, 26, 14, 32, 21,
     5, 35, 4, 26, 10, 25, 35, 27, 32, 27, 7, 16, 25, 2, 18, 15, 3, 37, 8, 15,
     16, 14, 36, 22, 19, 14, 26, 19, 38, 21, 29, 7, 7, 32, 41, 33, 26, 33, 6,
     37, 36, 25, 23, 6, 6, 40, 16, 8, 10, 11, 31, 20, 32, 40, 18, 13, 15, 27,
     2, 22, 41, 13, 19, 29, 13, 8, 37, 16, 8, 21, 40, 2, 33, 28, 11, 14, 0, 24,
     10, 16, 13, 34, 31, 33, 33, 34, 1, 29, 40, 39, 16, 18, 13, 17, 10, 2, 27,
     23, 26, 17, 0, 32, 18, 37, 31, 7, 7, 22, 23, 24, 26, 26, 15, 37, 40, 27,
     11, 34, 18, 30, 5, 18, 25, 36, 28, 17, 17, 25, 11, 19, 26, 1, 12, 34, 1,
     27, 27, 19, 2, 23, 16, 32, 39, 32, 28, 6, 41, 21, 13, 21, 23, 17, 34, 31,
     12, 35, 38, 20, 12, 41, 7, 2, 1, 9, 30, 12, 3, 4, 13, 16, 36, 8, 23, 35,
     22, 36, 40, 2, 11, 8, 5, 9, 30, 41, 22, 28, 5, 21, 2, 22, 22, 40, 9, 25,
     21, 39, 0, 23, 5, 33, 26, 22, 40, 2, 31, 4, 14, 32, 23, 34, 1, 22, 6, 29,
     30, 28, 3, 6, 39, 15, 14, 1, 17, 38, 34, 7, 25, 31, 2, 33, 39, 22, 18, 39,
     35, 27, 36, 3, 5, 35, 11, 18, 35, 27, 29, 29, 9, 41, 20, 35, 25, 1, 13,
     11, 24, 16, 13, 40, 8, 29, 25, 3, 39, 40, 35, 21, 4, 19, 32, 29, 26, 16,
     5, 41, 10, 29, 15, 19, 15, 33, 5, 16, 35, 41, 6, 15, 16, 30, 30, 24, 33,
     0, 8, 29, 35, 16, 23, 17, 16, 22, 41, 21, 16, 6, 37, 21, 26, 13, 12, 22,
     8, 3, 18, 3, 3, 22, 10, 28, 6, 2, 30, 18, 2, 25, 22, 10, 29, 12, 14, 7,
     36, 28, 29, 33, 30, 26, 9, 35, 20, 7, 31, 17, 39, 22, 4, 8, 8, 14, 3, 30,
     9, 36, 9, 9, 11, 11, 6, 1, 9, 22, 40, 11, 22, 6, 36, 16, 3, 11, 34, 31, 1,
     7, 40, 37, 5, 8, 39, 30, 14, 25, 18, 22, 23, 34, 38, 23, 12, 35, 10, 30,
     19, 13, 21, 6, 15, 37, 16, 24, 35, 26, 16, 0, 16, 35, 40, 39, 33, 20, 18,
     0, 0, 31, 17, 35, 0, 15, 37, 13, 15, 27, 19, 6, 25, 23, 41, 23, 21, 30,
     38, 0, 4, 23, 28, 15, 35, 23, 28, 40, 23, 11, 29, 17, 35, 12, 27, 30, 29,
     2, 38, 18, 15, 0, 12, 5, 34, 12, 35, 28, 39, 34, 6, 34, 34, 25, 34, 40, 5,
     28, 20, 17, 29, 2, 32, 8, 23, 9, 8, 38, 33, 4, 0, 35, 32, 15, 25, 39, 33,
     3, 26, 6, 24, 20, 16, 20, 1, 14, 19, 18, 6, 26, 24, 40, 9, 5, 14, 39, 23,
     37, 36, 9, 4, 13, 2, 27, 26, 6, 25, 33, 11, 24, 34, 8, 6, 19, 31, 9, 28,
     19, 17, 2, 14, 7, 5, 9, 15, 7, 11, 8, 16, 28, 1, 4, 18, 7, 13, 0, 3, 22,
     38, 1, 39, 7, 2, 33, 13, 29, 37, 6, 2, 0, 34, 2, 5, 14, 0, 18, 26, 31, 23,
     13, 21, 0, 28, 24, 4, 20, 18, 39, 31, 37, 14, 17, 9, 22, 0, 27, 21, 15,
     34, 30, 11, 37, 28, 16, 13, 41, 12, 33, 5, 29, 17, 23, 7, 0, 13, 22, 30,
     26, 40, 12, 18, 34, 34, 32, 27, 41, 7, 2, 13, 36, 4, 29, 33, 16, 21, 19,
     0, 38, 40, 20, 13, 18, 26, 28, 16, 37, 7, 20, 31, 6, 2, 6, 13, 21, 0, 37,
     14, 1, 37, 2, 35, 9, 26, 9, 24, 40, 40, 1, 15, 41, 16, 15, 28, 30, 2, 35,
     9, 23, 12, 8, 21, 6, 8, 21, 26, 30, 11, 23, 21, 7, 34, 15, 23, 12, 6, 11,
     11, 17, 33, 7, 36, 39, 25, 15, 18, 27, 26, 29, 12, 31, 2, 25, 28, 10, 38,
     37, 21, 16, 30, 0, 25, 3, 14, 40, 36, 15, 37, 10, 11, 11, 28, 33, 16, 7,
     27, 7, 15, 3, 20, 41, 5, 22, 41, 4, 20, 3, 10, 5, 41, 11, 10, 1, 15, 0,
     21, 7, 7, 3, 0, 0, 27, 26, 11, 16, 24, 12, 20, 17, 11, 7, 16, 26, 33, 11,
     33, 34, 13, 21, 7, 19, 36, 39, 10, 6, 28, 36, 11, 27, 25, 10, 29, 25, 7,
     16, 18, 5, 41, 32, 7, 0, 27, 40, 40, 9, 15, 20, 11, 23, 41, 31, 6, 21, 36,
     26, 37, 32, 24, 28, 11, 12, 37, 30, 28, 41, 6, 36, 9, 10, 39, 31, 28, 41,
     36, 6, 35, 32, 20, 8, 7, 12, 7, 36, 17, 14, 8, 2, 40, 29, 9, 5, 16, 33, 0,
     6, 26, 3, 33, 19, 1, 20, 31, 23, 28, 2, 12, 40, 16, 33, 3, 4, 11, 27, 5,
     36, 9, 40, 3, 40, 2, 39, 8, 34, 26, 24, 27, 30, 40, 5, 15, 25, 11, 27, 1,
     37, 14, 24, 28, 41, 26, 40, 0, 5, 27, 18, 2, 37, 26, 21, 25, 33, 20, 39,
     24, 22, 14, 14, 30, 34, 1, 38, 11, 3, 36, 21, 39, 9, 15, 26, 23, 29, 34,
     21, 10, 27, 0, 28, 24, 31, 31, 39, 8, 6, 8, 13, 17, 16, 9, 7, 36, 20, 6,
     27, 17, 13, 41, 40, 3, 12, 11, 10, 37, 6, 17, 29, 13, 37, 36, 38, 8, 22,
     17, 24, 37, 38, 14, 27, 40, 13, 13, 15, 41, 32, 19, 26, 40, 35, 10, 14,
     27, 22, 3, 40, 15, 40, 24, 19, 8, 23, 9, 37, 1, 8, 31, 21, 24, 22, 16, 8,
     11, 27, 15, 26, 17, 27, 29, 36, 5, 36, 37, 22, 15, 28, 32, 23, 20, 16, 12,
     39, 4, 33, 17, 23, 3, 3, 9, 33, 4, 1, 11, 11, 21, 11, 11 >>

\* random.seed(2)
RandomSeed2 ==
  << 40, 39, 2, 3, 35, 30, 28, 12, 25, 25, 24, 6, 18, 16, 30, 41, 39, 22, 18,
     11, 1, 1, 19, 13, 15, 37, 22, 23, 9, 1, 13, 5, 21, 41, 28, 7, 37, 33, 30,
     38, 32, 33, 14, 41, 40, 6, 31, 30, 19, 22, 20, 38, 21, 34, 14, 37, 37, 19,
     23, 38, 30, 20, 9, 13, 29, 6, 38, 11, 38, 13, 40, 29, 21, 21, 27, 24, 13,
     8, 21, 39, 26, 3, 34, 30, 38, 8, 31, 2, 27, 11, 9, 36, 4, 21, 35, 10, 8,
     36, 17, 30, 1, 15, 7, 28, 3, 40, 1, 30, 0, 10, 34, 6, 7, 29, 16, 1, 41, 6,
     1, 14, 25, 31, 4, 14, 1, 18, 32, 31, 37, 31, 36, 29, 19, 9, 27, 13, 4, 18,
     36, 5, 24, 16, 21, 6, 40, 10, 25, 17, 0, 23, 5, 2, 1, 6, 4, 26, 21, 41,
     39, 41, 9, 18, 10, 24, 26, 33, 29, 10, 17, 22, 0, 1, 17, 4, 30, 10, 4, 7,
     9, 9, 21, 19, 13, 26, 8, 38, 40, 30, 18, 21, 24, 2, 17, 22, 7, 3, 33, 15,
     21, 38, 25, 12, 41, 15, 0, 28, 4, 12, 35, 28, 0, 18, 17, 20, 8, 24, 3, 11,
     15, 39, 3, 31, 8, 24, 16, 19, 31, 16, 5, 5, 3, 35, 26, 40, 29, 1, 27, 32,
     30, 20, 15, 19, 33, 11, 22, 20, 40, 33, 39, 35, 12, 9, 20, 10, 17, 28, 38,
     24, 34, 4, 14, 41, 6, 17, 2, 3, 37, 41, 27, 5, 12, 9, 28, 28, 18, 22, 4,
     22, 39, 31, 4, 21, 30, 10, 37, 19, 29, 16, 41, 32, 24, 6, 18, 1, 24, 37,
     7, 21, 20, 17, 29, 39, 29, 19, 40, 13, 31, 27, 31, 35, 9, 26, 16, 28, 41,
     26, 0, 19, 29, 37, 27, 34, 0, 39, 30, 25, 38, 37, 4, 34, 32, 8, 31, 24, 8,
     33, 5, 25, 18, 10, 23, 19, 8, 40, 3, 0, 20, 35, 27, 31, 20, 28, 14, 11,
     21, 1, 3, 31, 7, 31, 32, 16, 28, 33, 36, 5, 6, 16, 19, 12, 0, 23, 40, 15,
     22, 16, 18, 36, 12, 27, 20, 22, 38, 3, 34, 12, 27, 33, 27, 16, 35, 3, 26,
     16, 22, 35, 33, 26, 12, 9, 19, 9, 11, 40, 4, 34, 15, 15, 13, 3, 19, 6, 18,
     12, 37, 38, 18, 26, 39, 13, 4, 9, 7, 28, 15, 14, 33, 9, 33, 26, 16, 34,
     14, 36, 38, 21, 28, 39, 31, 31, 36, 39, 31, 41, 12, 26, 28, 15, 16, 7, 40,
     14, 20, 37, 7, 40, 5, 1, 14, 15, 38, 37, 31, 18, 22, 9, 35, 16, 11, 26, 6,
     13, 38, 3, 5, 8, 10, 17, 10, 14, 10, 10, 25, 14, 15, 32, 2, 6, 35, 18, 32,
     5, 21, 35, 14, 32, 25, 16, 41, 16, 19, 26, 13, 35, 25, 24, 22, 41, 41, 35,
     19, 17, 22, 1, 4, 41, 5, 39, 28, 38, 3, 12, 33, 0, 4, 14, 7, 6, 28, 3, 40,
     27, 2, 37, 10, 20, 23, 5, 21, 2, 8, 38, 34, 21, 28, 36, 5, 20, 5, 4, 4, 8,
     2, 9, 15, 26, 36, 37, 30, 21, 38, 6, 4, 34, 26, 8, 15, 12, 18, 17, 16, 33,
     34, 23, 19, 11, 32, 41, 9, 29, 29, 27, 1, 23, 8, 8, 24, 27, 26, 31, 29,
     19, 2, 32, 34, 35, 25, 1, 8, 4, 26, 22, 7, 40, 41, 37, 19, 12, 8, 34, 29,
     11, 37, 23, 17, 17, 30, 19, 27, 5, 29, 11, 38, 9, 13, 22, 16, 22, 38, 8,
     32, 29, 33, 18, 19, 14, 19, 10, 8, 19, 8, 19, 24, 12, 7, 25, 36, 9, 25,
     27, 37, 28, 12, 8, 35, 12, 0, 36, 8, 13, 13, 10, 30, 14, 18, 17, 35, 0,
     24, 5, 6, 25, 15, 2, 24, 38, 27, 20, 33, 38, 6, 12, 40, 38, 8, 29, 36, 24,
     29, 22, 9, 8, 2, 27, 5, 26, 16, 18, 40, 16, 19, 15, 9, 9, 22, 34, 3, 39,
     28, 2, 29, 16, 21, 4, 21, 21, 32, 24, 29, 30, 9, 1, 20, 5, 5, 13, 22, 25,
     27, 39, 4, 23, 3, 28, 18, 5, 13, 27, 19, 39, 14, 14, 38, 25, 4, 32, 15,
     39, 26, 33, 37, 21, 40, 1, 14, 35, 0, 28, 41, 30, 36, 3, 22, 25, 18, 17,
     33, 6, 1, 24, 40, 34, 28, 12, 37, 1, 10, 33, 37, 16, 38, 4, 25, 2, 9, 7,
     0, 17, 21, 11, 27, 2, 21, 22, 16, 38, 5, 17, 19, 15, 40, 24, 21, 18, 18,
     39, 33, 27, 6, 24, 5, 14, 0, 29, 41, 26, 23, 10, 18, 19, 17, 11, 9, 31,
     40, 34, 26, 1, 12, 35, 40, 23, 23, 28, 10, 29, 15, 35, 19, 27, 23, 22, 19,
     39, 31, 17, 21, 37, 31, 27, 40, 4, 25, 26, 19, 40, 40, 16, 25, 32, 29, 15,
     33, 14, 6, 27, 27, 17, 20, 41, 33, 17, 38, 23, 17, 27, 32, 37, 28, 28, 16,
     1, 19, 4, 39, 15, 25, 30, 7, 35, 13, 3, 25, 16, 38, 18, 3, 0, 1, 20, 29,
     2, 13, 20, 37, 40, 36, 26, 24, 9, 25, 6, 12, 34, 23, 30, 19, 11, 21, 24,
     10, 35, 41, 7, 10, 34, 30, 9, 24, 10, 36, 24, 21, 6, 17, 19, 15, 7, 8, 29,
     38, 35, 25, 33, 5, 8, 29, 0, 3, 32, 8, 7, 16, 35, 0, 36, 12, 23, 19, 5,
     40, 7, 33, 36, 19, 40, 2, 6, 20, 3, 33, 22, 33, 12, 1, 37, 8, 17, 5, 24,
     19, 8, 1, 14, 32, 6, 9, 25, 26, 33, 27, 35, 6, 38, 1, 4, 4, 32, 21, 38,
     40, 39, 25, 14, 40, 30, 8, 23, 0, 0, 26, 30, 36, 31, 5, 30, 41, 28, 20,
     12, 2, 26, 40, 4, 34, 37, 14, 35, 6, 12, 23, 36, 22, 3, 39, 24, 32, 9, 14,
     3, 7, 18, 17, 27, 35, 14, 38, 27, 14, 7, 40, 27, 1, 28, 15, 17, 32, 9, 11,
     22, 37, 3, 35, 30, 7, 27, 26, 29, 22, 13, 21, 9, 19, 17, 4, 9, 14, 16, 23,
     31, 10, 23, 14, 9, 5, 40, 39, 34, 7, 6, 4, 12, 17, 0, 17, 28, 35, 7, 0,
     33, 15, 13, 6, 11, 11, 10, 9, 21, 34, 12, 17, 20, 35, 32, 41, 7, 33, 12,
     24, 22, 24, 13, 3, 0, 38, 37, 19, 3, 35, 21, 19, 26, 6, 9, 34, 30, 41, 18,
     40, 37, 21, 37, 6, 2, 34, 5, 21, 30, 28, 9, 33, 1, 23, 37, 22, 12, 41, 30,
     33, 37, 39, 24, 34, 21, 10, 11, 10, 1, 26, 16, 38, 2, 32, 8, 13, 12, 40,
     27, 19, 7, 2, 15, 40, 18, 28, 36, 1, 13, 17, 9, 16, 28, 5, 29, 12, 27, 7,
     33, 17, 34, 40, 24, 0, 15, 40, 27, 31, 20, 39, 38, 25, 24, 4, 0, 8, 30,
     35, 32, 37, 1, 1, 10, 0, 24, 39, 37, 4, 27, 28, 27, 17, 9, 37, 37, 30, 22,
     1, 11, 10, 10, 9, 28, 28, 7, 37, 0, 40, 24, 27, 11, 29, 36, 8, 5, 33, 10,
     4, 20, 7, 8, 11, 3, 34, 23, 27, 12, 32, 40, 41, 1, 13, 3, 19, 27, 25, 14,
     40, 26, 41, 17, 27, 4, 22, 27, 9, 26, 5, 19, 25, 20, 6, 7, 15, 27, 18, 8,
     14, 12, 5, 24, 19, 13, 0, 38, 1, 4, 12, 33, 39, 31, 8, 35, 1, 4, 4, 23,
     24, 26, 39, 31, 31, 7, 38, 38, 34, 3, 29, 21, 22, 11, 32, 33, 32, 12, 30,
     3, 28, 1, 0, 4, 27, 41, 19, 27, 24, 35, 40, 34, 13, 3, 37, 11, 31, 36, 7,
     8, 17, 35, 35, 41, 11, 26, 36, 15, 24, 9, 35, 18, 20, 27, 13, 34, 19, 18,
     30, 28, 29, 36, 33, 17, 27, 36, 2, 27, 22, 16, 4, 12, 31, 37, 41, 31, 36,
     34, 6, 28, 36, 31, 11, 29, 16, 18, 30, 28, 5, 26, 2, 8, 34, 38, 10, 32, 7,
     20, 14, 3, 18, 23, 35, 4, 12, 0, 8, 11, 34, 39, 9, 20, 21, 20, 40, 39, 1,
     17, 22, 27, 22, 34, 4, 19, 34, 7, 7, 25, 6, 22, 5, 7, 14, 32, 25, 25, 26,
     16, 40, 25, 26, 2, 10, 24, 40, 29, 2, 33, 8, 25, 8, 2, 32, 20, 25, 29, 24,
     17, 13, 22, 10, 11, 34, 14, 30, 28, 19, 32, 13, 0, 35, 31, 31, 38, 17, 17,
     25, 36, 11, 31, 40, 10, 0, 6, 27, 9, 39, 3, 37, 14, 38, 14, 4, 28, 12, 39,
     34, 10, 20, 23, 32, 11, 23, 21, 24, 23, 18, 16, 16, 41, 21, 4, 16, 32, 28,
     3, 17, 18, 35, 11, 38, 34, 0, 20, 22, 26, 37, 8, 34, 0, 34, 10, 1, 34, 40,
     27, 32, 16, 10, 27, 33, 11, 15, 11, 11, 36, 0, 0, 7, 32, 23, 31, 29, 37,
     24, 0, 4, 17, 4, 13, 11, 41, 40, 28, 17, 17, 2, 19, 6, 22, 34, 16, 29, 34,
     38, 17, 9, 37, 20, 11, 28, 36, 41, 15, 11, 10, 12, 9, 38, 26, 2, 3, 7, 40,
     14, 33, 9, 8, 39, 3, 21, 22, 14, 31, 35, 9, 12, 20, 20, 26, 32, 14, 39,
     19, 1, 17, 22, 7, 36, 25, 21, 11, 5, 11, 26, 28, 28, 1, 32, 29, 28, 21,
     35, 40, 24, 18, 22, 33, 28, 32, 12, 25, 9, 24, 0, 22, 30, 38, 20, 36, 8,
     0, 23, 14, 16, 25, 31, 36, 13, 24, 26, 28, 24, 19, 33, 0, 33, 7, 7, 28,
     19, 14, 3, 2, 11, 4, 29, 8, 15, 17, 29, 34, 26, 9, 5, 23, 15, 30, 9, 29,
     15, 11, 7, 31, 21, 22, 34, 1, 22, 13, 10, 34, 10, 17, 18, 5, 13, 0, 21,
     26, 41, 40, 13, 40, 4, 6, 22, 28, 24, 1, 17, 20, 16, 31, 31, 3, 19, 29,
     33, 27, 41, 31, 16, 35, 25, 25, 24, 31, 29, 19, 33, 17, 31, 38, 22, 6, 38,
     8, 8, 1, 17, 16, 34, 7, 15, 32, 0, 17, 6, 32, 12, 5, 4, 8, 29, 4, 1, 10,
     1, 30, 31, 22, 14, 1, 30, 10, 23, 41, 10, 28, 18, 22, 16, 29, 21, 1, 34,
     10, 14, 20, 24, 31, 4, 16, 26, 19, 10, 33, 40, 27, 22, 6, 20, 32, 13, 18,
     18, 12, 25, 12, 38, 35, 12, 2, 0, 34, 17, 5, 1, 32, 8, 38, 15, 26, 14, 27,
     5, 11, 5, 2, 23, 41, 0, 36, 12, 6, 1, 14, 3, 20, 19, 7, 37, 24, 31, 10,
     30, 29, 32, 7, 39, 19, 3, 38, 12, 37, 8, 3, 21, 23, 28, 26, 15, 31, 21, 6,
     24, 14, 22, 6, 10, 11, 27, 0, 17, 16, 36, 5, 21, 34, 17, 40, 10, 20, 12,
     11, 2, 32, 27, 35, 20, 7, 27, 39, 23, 11, 21, 35, 34, 26, 31, 1, 5, 0, 18,
     20, 0, 34, 22, 30, 40, 32, 31, 26, 22, 32, 32, 12, 33, 6, 22, 38, 9, 37,
     20, 30, 6, 2, 10, 25, 37, 23, 21, 15, 21, 29, 36, 14, 28, 14, 10, 2, 16,
     25, 21, 18, 32, 19, 29, 23, 39, 13, 18, 32, 12, 33, 13, 6, 22, 23, 12, 11,
     41, 21, 29, 17, 23, 12, 7, 34, 28, 12, 17, 23, 2, 25, 41, 28, 19, 5, 22,
     24, 29, 37, 11, 4, 40, 22, 37, 25, 37, 25, 30, 26, 40, 31, 40, 17, 8, 8,
     19, 23, 28, 19, 40, 17, 0, 22, 27, 10, 31, 8, 37, 18, 40, 25, 30, 8, 37,
     41, 6, 24, 6, 36, 36, 38, 32, 16, 26, 2, 4, 23, 31, 12, 0, 1, 13, 15, 38,
     28, 37, 31, 29, 32, 9, 31, 24, 27, 20, 18, 35, 33, 8, 36, 22, 2, 33, 36,
     18, 18, 11, 8, 22, 18, 27, 27, 8, 32, 18, 17, 7, 25, 28, 32, 34, 14, 22,
     25, 16, 0, 30, 37, 19, 38, 2, 24, 16, 26, 15, 30, 8, 12, 17, 17, 17, 39,
     21, 23, 5, 22, 31, 29, 40, 25, 15, 36, 41, 40, 4, 28, 6, 11, 32, 36, 24,
     13, 20, 12, 11, 8, 39, 39, 7, 35, 31, 30, 10, 22, 34, 29, 39, 2, 13, 15,
     17, 41, 40, 34, 27, 32, 35, 8, 26, 41, 6, 18, 15, 35, 19, 5, 15, 27, 22,
     1, 34, 11, 1, 26, 28, 25, 3, 0, 30, 21, 0, 23, 3, 19, 29, 9, 17, 30, 11,
     26, 2, 29, 9, 18, 41, 32, 7, 33, 16, 20, 11, 7, 41, 16, 8, 33, 4, 17, 4,
     1, 41, 20, 27, 6, 15, 2, 35, 0, 39, 40, 8, 12, 7, 1, 19, 22, 37, 20, 7,
     18, 6, 1, 16, 34, 3, 40, 35, 41, 24, 12, 32, 6, 21, 34, 22, 32, 7, 36, 6,
     13, 24, 38, 5, 11, 32, 10, 16, 7, 41, 33, 15, 41, 37, 13, 3, 30, 26, 11,
     0, 12, 39, 28, 28, 29, 11, 36, 19, 38, 25, 28, 36, 41, 29, 39, 17, 13, 10,
     15, 37, 13, 10, 3, 30, 39, 17, 6, 32, 35, 17, 19, 15, 22, 27, 38, 14, 40,
     25, 19, 35, 10, 22, 38, 35, 36, 22, 27, 32, 10, 40, 33, 20, 25, 39, 0, 11,
     36, 1, 29, 12, 10, 2, 11, 15, 27, 34, 25, 6, 22, 38, 9, 29, 9, 12, 22, 34,
     22, 8, 24, 2, 30, 23, 14, 26, 14, 20, 24, 33, 8, 40, 35, 7, 38, 11, 35, 8,
     36, 36, 23, 28, 31, 26, 14, 32, 37, 22, 36, 15, 18, 28, 13, 33, 33, 8, 16,
     37, 21, 1, 33, 7, 19, 37, 32, 31, 0, 10, 4, 41, 8, 6, 29, 32, 30, 22, 37,
     25, 1, 35, 0, 41, 24, 26, 9, 36, 15, 24, 2, 28, 35, 25, 33, 23, 23, 34, 7,
     16, 33, 31, 38, 30, 28, 26, 9, 32, 34, 9, 15, 18, 30, 3, 5, 38, 32, 17, 7,
     0, 6, 37, 3, 35, 7, 33, 9, 29, 32, 21, 10, 20, 10, 40, 19, 24, 13, 18, 37,
     37, 34, 39, 41, 0, 12, 3, 35, 6, 33, 8, 8, 13, 37, 10, 7, 32, 10, 24, 20,
     29, 20, 9, 5, 35, 9, 10, 24, 39, 15, 13, 14, 19, 38, 24, 23, 13, 14, 18,
     33, 37, 34, 9, 39, 12, 13, 19, 4, 21, 39, 4, 40, 17, 10, 22, 4, 14, 32,
     12, 31, 11, 31, 30, 24, 19, 9, 4, 21, 14, 35, 4, 3, 14, 23, 30, 26, 10, 3,
     27, 4, 32, 26, 37, 18, 19, 26, 4, 35, 24, 28, 2, 11, 6, 13, 16, 39, 19,
     23, 17, 17, 2, 28, 20, 8, 31, 0, 37, 22, 35, 21, 5, 20, 9, 23, 0, 28, 33,
     23, 14, 28, 16, 40, 37, 18, 33, 10, 39, 28, 0, 26, 15, 27, 4, 14, 39, 23,
     21, 28, 4, 5, 16, 14, 19, 23, 3, 12, 34, 31, 26, 2, 27, 3, 8, 10, 41, 14,
     13, 4, 17, 33, 14, 17, 4, 6, 4, 34, 35, 19, 24, 16, 28, 9, 14, 30, 14, 41,
     19, 0, 20, 36, 7, 18, 23, 36, 0, 30, 3, 29, 39, 26, 0, 11, 19, 37, 18, 10,
     31, 30, 41, 25, 32, 36, 8, 1, 34, 26, 36, 35, 5, 11, 35, 23, 33, 38, 0,
     10, 3, 9, 16, 38, 9, 20, 17, 40, 28, 17, 3, 11, 5, 41, 12, 7, 1, 6, 25,
     20, 24, 30, 8, 25, 24, 41, 17, 9, 9, 29, 33, 12, 34, 39, 16, 3, 38, 10,
     41, 16, 20, 18, 3, 14, 3, 20, 4, 25, 22, 38, 34, 25, 33, 16, 34, 26, 34,
     36, 28, 37, 0, 39, 20, 21, 9, 13, 23, 15, 0, 14, 6, 41, 3, 30, 32, 41, 30,
     30, 25, 37, 35, 21, 40, 24, 17, 12, 26, 23, 13, 19, 17, 36, 5, 3, 21, 22,
     1, 18, 5, 8, 32, 0, 8, 20, 34, 32, 21, 21, 34, 22, 32, 18, 5, 38, 8, 23,
     28, 20, 15, 2, 18, 3, 22, 18, 2, 15, 18, 11, 39, 12, 3, 1, 2, 18, 1, 18,
     38, 10, 29, 22, 7, 18, 0, 18, 4, 4, 19, 15, 7, 6, 11, 40, 40, 12, 1, 20,
     37, 10, 41, 17, 11, 3, 11, 22, 12, 16, 30, 20, 3, 3, 36, 7, 16, 28, 40,
     21, 31, 25, 33, 19, 9, 22, 26, 6, 24, 19, 15, 20, 15, 15, 41, 13, 19, 0,
     12, 34, 21, 28, 38, 29, 39, 36, 8, 26, 0, 26, 37, 30, 37, 24, 32, 9, 11,
     3, 5, 32, 4, 32, 11, 35, 40, 1, 24, 27, 19, 0, 20, 29, 21, 6, 22, 1, 7,
     14, 20, 15, 10, 39, 4, 6, 31, 13, 36, 35, 21, 26, 15, 31, 40, 26, 15, 38,
     0, 31, 39, 9, 26, 4, 16, 39, 3, 7, 6, 6, 9, 40, 25, 21, 33, 27, 40, 14,
     22, 38, 13, 38, 15, 19, 16, 4, 14, 29, 35, 23, 2, 24, 27, 26, 10, 2, 22,
     10, 34, 36, 2, 32, 18, 18, 19, 36, 3, 39, 38, 18, 40, 33, 28, 22, 30, 24,
     33, 9, 17, 11, 0, 29, 25, 10, 34, 30, 32, 24, 12, 27, 10, 22, 34, 21, 36,
     34, 19, 16, 11, 19, 3, 34, 10, 3, 5, 14, 13, 25, 14, 9, 19, 21, 21, 16,
     22, 41, 15, 29, 18, 29, 16, 33, 41, 29, 31, 2, 28, 29, 6, 32, 34, 38, 17,
     7, 8, 0, 21, 41, 15, 21, 5, 32, 14, 11, 34, 29, 24, 30, 5, 29, 24, 26, 13,
     18, 3, 19, 19, 23, 20, 25, 23, 41, 6, 27, 31, 32, 7, 10, 29, 26, 13, 34,
     18, 10, 19, 8, 31, 40, 30, 24, 4, 39, 36, 34, 30, 3, 13, 20, 25, 8, 37,
     20, 30, 37, 10, 8, 24, 5, 1, 1, 32, 35, 16, 19, 23, 12, 14, 16, 10, 29,
     23, 4, 4, 31, 20, 36, 30, 24, 10, 25, 19, 31, 10, 41, 39, 41, 16, 8, 18,
     32, 27, 0, 9, 40, 22, 2, 24, 32, 38, 4, 29, 4, 26, 22, 0, 7, 17, 29, 41,
     11, 11, 28, 19, 25, 35, 31, 18, 15, 29, 25, 27, 20, 30, 9, 34, 16, 17, 2,
     34, 23, 26, 13, 2, 22, 21, 8, 34, 1, 35, 38, 4, 39, 39, 14, 18, 34, 2, 34,
     0, 26, 1, 19, 29, 22, 15, 11, 3, 11, 8, 9, 4, 8, 17, 4, 30, 12, 32, 23,
     30, 30, 15, 28, 1, 35, 30, 38, 14, 6, 30, 7, 36, 13, 36, 3, 12, 33, 3, 30,
     16, 23, 7, 10, 36, 30, 4, 3, 4, 8, 11, 22, 13, 39, 3, 20, 26, 33, 20, 26,
     6, 11, 35, 0, 22, 38, 38, 8, 41, 19, 5, 34, 22, 41, 5, 35, 13, 1, 6, 32,
     38, 30, 27, 17, 12, 15, 3, 5, 10, 38, 38, 11, 39, 6, 27, 4, 24, 41, 30,
     28, 27, 34, 20, 37, 30, 29, 9, 33, 39, 2, 18, 29, 33, 33, 13, 19, 31, 40,
     4, 0, 35, 1, 3, 15, 0, 38, 1, 3, 20, 16, 31, 36, 0, 39, 2, 15, 10, 7, 3,
     33, 13, 14, 37, 16, 6, 5, 15, 2, 27, 15, 28, 18, 2, 41, 31, 24, 5, 27, 22,
     29, 2, 27, 39, 33, 27, 8, 26, 28, 10, 37, 11, 2, 19, 38, 29, 10, 16, 37,
     39, 18, 20, 11, 28, 37, 14, 34, 20, 29, 30, 26, 7, 40, 1, 8, 4, 28, 19,
     41, 7, 3, 0, 12, 34, 15, 21, 12, 11, 30, 0, 23, 39, 13, 20, 27, 12, 8, 35,
     0, 9, 20, 2, 1, 36, 33, 22, 40, 34, 30, 15, 30, 14, 14, 7, 0, 33, 32, 35,
     17, 29, 25, 11, 18, 4, 34, 29, 1, 29, 29, 2, 41, 41, 20, 15, 0, 32, 30, 8,
     2, 16, 33, 13, 24, 28, 7, 24, 6, 33, 20, 37, 18, 16, 18, 18, 32, 12, 0,
     27, 6, 6, 14, 19, 9, 38, 12, 38, 11, 0, 35, 16, 1, 26, 32, 16, 28, 41, 11,
     26, 41, 12, 35, 3, 28, 22, 31, 21, 29, 4, 36, 22, 28, 31, 21, 36, 30, 10,
     3, 30, 37, 14, 13, 28, 39, 25, 3, 20, 20, 8, 26, 23, 17, 25, 4, 38, 14,
     14, 37, 24, 41, 33, 31, 40, 29, 2, 23, 20, 22, 41, 41, 30, 34, 0, 18, 19,
     9, 38, 1, 35, 41, 14, 1, 18, 4, 39, 21, 7, 30, 21, 23, 8, 40, 36, 37, 34,
     39, 9, 32, 16, 8, 29, 21, 10, 21, 16, 24, 32, 32, 11, 15, 9, 39, 41, 9,
     15, 21, 4, 26, 27, 8, 12, 28, 39, 5, 30, 36, 31, 41, 10, 7, 40, 19, 28,
     22, 24, 0, 2, 3, 36, 3, 15, 5, 26, 28, 33, 31, 32, 8, 18, 40, 18, 34, 22,
     13, 38, 2, 27, 31, 34, 2, 25, 13, 27, 2, 19, 20, 11, 11, 30, 24, 16, 19,
     26, 25, 28, 39, 41, 5, 20, 24, 5, 11, 7, 16, 14, 3, 29, 31, 9, 6, 13, 30,
     4, 29, 39, 10, 9, 24, 35, 8, 2, 17, 16, 5, 33, 2, 27, 11, 4, 16, 16, 14,
     26, 19, 13, 8, 25, 35, 35, 10, 28, 14, 26, 2, 32, 17, 31, 37, 5, 35, 40,
     9, 27, 36, 1, 27, 12, 20, 7, 16, 37, 11, 17, 5, 15, 8, 14, 17, 22, 26, 26,
     0, 20, 41, 36, 27, 28, 13, 1, 9, 39, 16, 20, 12, 0, 23, 3, 33, 24, 4, 9,
     2, 6, 12, 16, 16, 2, 39, 16, 41, 7, 28, 36, 16, 31, 11, 29, 7, 35, 38, 11,
     10, 29, 13, 25, 16, 39, 26, 36, 22, 24, 33, 35, 31, 18, 26, 30, 8, 5, 25,
     10, 30, 0, 28, 1, 0, 7, 14, 5, 25, 36, 25, 8, 37, 40, 17, 40, 25, 0, 1, 6,
     40, 8, 37, 30, 39, 27, 10, 32, 1, 14, 14, 32, 17, 5, 5, 7, 16, 22, 0, 40,
     25, 11, 25, 41, 6, 3, 10, 24, 38, 22, 4, 29, 39, 28, 8, 24, 25, 27, 13,
     23, 18, 31, 6, 29, 38, 17, 10, 10, 13, 26, 21, 7, 19, 9, 9, 15, 29, 18, 9,
     1, 8, 25, 26, 9, 13, 28, 4, 25, 21, 11, 23, 5, 19, 15, 7, 17, 38, 35, 21,
     33, 29, 20, 9, 12, 16, 4, 24, 20, 28, 1, 38, 27, 23, 12, 30, 8, 39, 7, 20,
     12, 40, 9, 24, 3, 38, 39, 29, 3, 11, 5, 17, 36, 2, 3, 15, 20, 9, 18, 33,
     19, 16, 30, 29, 18, 35, 31, 30, 23, 7, 30, 31, 25, 24, 22, 29, 10, 19, 38,
     38, 28, 0, 18, 2, 37, 27, 31, 25, 5, 22, 34, 8, 31, 5, 11, 19, 2, 15, 21,
     22, 37, 33, 10, 37, 23, 33, 4, 17, 14, 21, 37, 2, 12, 4, 31, 21, 21, 24,
     8, 24, 25, 34, 9, 20, 20, 3, 33, 8, 30, 10, 32, 39, 3, 10, 31, 10, 10, 16,
     29, 35, 26, 7, 20, 2, 27, 30, 8, 1, 28, 33, 39, 0, 37, 31, 8, 2, 35, 1,
     18, 14, 23, 6, 23, 30, 16, 2, 25, 13, 39, 12, 7, 21, 16, 3, 25, 12, 38, 5,
     4, 21, 31, 39, 29, 38, 20, 31, 17, 20, 32, 1, 29, 20, 31, 19, 1, 28, 0,
     25, 37, 22, 16, 30, 8, 37, 1, 37, 1, 37, 17, 22, 12, 30, 40, 6, 22, 6, 32,
     2, 13, 9, 30, 8, 37, 33, 4, 40, 36, 30, 30, 12, 10, 13, 41, 33, 7, 9, 27,
     20, 10, 5, 10, 13, 11, 12, 25, 32, 24, 13, 7, 3, 41, 8, 26, 14, 4, 28, 24,
     1, 27, 38, 15, 18, 40, 30, 36, 19, 33, 13, 7, 12, 10, 11, 39, 3, 31, 12,
     16, 41, 24, 27, 34, 2, 14, 4, 36, 28, 35, 23, 2, 20, 35, 39, 35, 1, 38,
     20, 27, 3, 41, 30, 23, 34, 15, 14, 12, 5, 31, 24, 27, 33, 18, 19, 21, 10,
     37, 31, 11, 9, 35, 10, 18, 9, 20, 5, 13, 3, 26, 26, 11, 37, 40, 39, 11,
     31, 30, 5, 16, 37, 25, 2, 3, 20, 38, 33, 40, 12, 9, 32, 18, 38, 28, 13,
     40, 1, 40, 38, 25, 5, 8, 2, 21, 2, 34, 21, 37, 13, 19, 21, 0, 4, 26, 8,
     35, 32, 10, 22, 29, 6, 28, 1, 0, 25, 17, 26, 5, 37, 16, 33, 36, 11, 8, 16,
     22, 41, 18, 7, 33, 36, 38, 37, 12, 16, 10, 33, 36, 15, 25, 1, 1, 25, 11,
     15, 5, 40, 33, 36, 14, 5, 5, 38, 20, 9, 38, 37, 8, 33, 7, 4, 8, 28, 19,
     15, 31, 8, 32, 30, 12, 1, 12, 13, 2, 0, 30, 0, 41, 0, 13, 23, 37, 8, 9,
     41, 28, 4, 31, 5, 18, 28, 12, 35, 1, 5, 27, 41, 27, 27, 27, 15, 15, 28, 3,
     41, 20, 13, 8, 29, 33, 13, 15, 20, 6, 38, 1, 29, 34, 32, 2, 8, 0, 33, 27,
     40, 4, 34, 14, 27, 40, 11, 29, 4, 1, 16, 5, 31, 23, 9, 4, 19, 35, 28, 36,
     19, 35, 13, 41, 15, 36, 33, 25, 15, 9, 17, 36, 27, 27, 15, 13, 30, 6, 4,
     23, 38, 0, 6, 24, 15, 32, 23, 23, 1, 13, 11, 19, 9, 0, 35, 19, 16, 9, 3,
     10, 32, 37, 32, 37, 38, 22, 14, 5, 35, 16, 26, 9, 16, 1, 17, 4, 20, 40,
     28, 14, 4, 4, 27, 0, 41, 11, 26, 8, 30, 30, 37, 32, 21, 33, 15, 3, 2, 5,
     16, 19, 37, 33, 38, 7, 2, 23, 17, 26, 36, 30, 27, 1, 31, 2, 36, 13, 13,
     16, 39, 12, 31, 41, 4, 21, 2, 5, 11, 41, 33, 0, 38, 22, 0, 25, 15, 24, 41,
     5, 13, 21, 30, 8, 36, 15, 0, 41, 14, 6, 24, 32, 14, 11, 25, 29, 22, 28,
     32, 6, 39, 32, 21, 3, 13, 25, 24, 8, 31, 1, 38, 10, 38, 24, 6, 8, 11, 2,
     16, 21, 3, 14, 27, 33, 32, 2, 15, 13, 11, 40, 24, 27, 10, 14, 36, 28, 34,
     24, 2, 40, 6, 9, 16, 26, 25, 21, 29, 3, 8, 13, 31, 21, 9, 29, 14, 33, 6,
     0, 32, 5, 35, 25, 18, 2, 33, 0, 25, 14, 26, 3, 21, 17, 1, 0, 9, 23, 1, 4,
     6, 24, 39, 7, 20, 5, 8, 7, 27, 22, 38, 28, 2, 40, 15, 34, 40, 20, 33, 32,
     2, 26, 33, 35, 1, 22, 18, 39, 3, 13, 18, 22, 10, 8, 30, 39, 13, 24, 16, 8,
     40, 27, 41, 38, 20, 29, 26, 40, 2, 21, 36, 17, 1, 16, 25, 40, 7, 9, 12, 7,
     17, 35, 20, 12, 39, 19, 7, 32, 6, 27, 2, 23, 31, 11, 15, 30, 31, 32, 18,
     39, 21, 17, 5, 31, 18, 32, 39, 13, 16, 30, 37, 38, 15, 10, 26, 34, 36, 10,
     17, 23, 10, 2, 22, 10, 23, 13, 21, 38, 4, 12, 0, 26, 35, 35, 41, 8, 5, 26,
     30, 36, 28, 7, 17, 23, 31, 35, 38, 38, 27, 27, 17, 29, 15, 37, 12, 22, 14,
     21, 28, 10, 19, 23, 28, 25, 30, 4, 18, 20, 35, 26, 8, 10, 5, 8, 11, 28,
     17, 37, 21, 33, 27, 38, 15, 13, 35, 27, 18, 34, 9, 8, 24, 33, 17, 0, 24,
     37, 25, 0, 13, 41, 12, 28, 6, 26, 21, 2, 41, 8, 20, 11, 28, 9, 4, 36, 41,
     8, 37, 2, 40, 4, 7, 30, 23, 19, 32, 40, 33, 8, 35, 40, 31, 26, 41, 17, 39,
     32, 31, 19, 13, 34, 14, 5, 9, 30, 1, 3, 29, 19, 3, 4, 19, 34, 3, 38, 0,
     40, 12, 17, 20, 16, 11, 19, 20, 23, 16, 7, 25, 1, 4, 14, 22, 3, 39, 30,
     20, 23, 14, 0, 37, 21, 37, 16, 8, 27, 41, 6, 23, 1, 24, 18, 15, 38, 20,
     17, 33, 38, 6, 6, 41, 29, 32, 41, 39, 24, 8, 29, 16, 27, 19, 19, 23, 30,
     17, 31, 0, 3, 26, 12, 37, 18, 30, 11, 29, 27, 21, 33, 8, 20, 11, 29, 41,
     33, 21, 0, 9, 5, 9, 40, 33, 22, 4, 9, 25, 32, 30, 25, 38, 20, 3, 12, 10,
     37, 34, 27, 11, 34, 7, 36, 15, 11, 17, 34, 30, 36, 0, 41, 16, 40, 31, 21,
     19, 36, 36, 16, 39, 41, 27, 6, 15, 20, 0, 24, 12, 38, 12, 1, 41, 34, 26,
     19, 19, 22, 12, 38, 6, 24, 1, 38, 11, 8, 32, 4, 14, 2, 13, 4, 35, 8, 15,
     35, 2, 29, 1, 36, 6, 35, 14, 29, 30, 16, 8, 20, 24, 2, 2, 33, 2, 8, 8, 31,
     0, 28, 3, 7, 18, 25, 21, 10, 29, 20, 41, 8, 19, 31, 36, 13, 33, 10, 8, 28,
     41, 35, 1, 17, 32, 32, 34, 0, 3, 21, 10, 26, 29, 18, 0, 16, 23, 20, 6, 28,
     22, 26, 23, 10, 35, 18, 2, 11, 34, 17, 30, 8, 19, 16, 21, 29, 35, 19, 1,
     37, 38, 31, 17, 41, 36, 39, 17, 25, 7, 9, 19, 12, 5, 0, 36, 3, 14, 4, 16,
     30, 11, 21, 1, 37, 40, 23, 9, 19, 18, 1, 3, 4, 29, 36, 16, 14, 3, 20, 28,
     11, 37, 40, 10, 37, 27, 17, 17, 13, 0, 25, 13, 27, 22, 20, 26, 0, 5, 23,
     27, 6, 22, 12, 40, 27, 34, 33, 33, 38, 7, 2, 19, 12, 12, 5, 38, 7, 25, 3,
     0, 39, 13, 27, 5, 10, 37, 7, 19, 19, 22, 24, 11, 0, 8, 39, 32, 4, 32, 29,
     13, 25, 11, 36, 0, 5, 20, 21, 22, 30, 19, 12, 39, 4, 16, 20, 35, 2, 41,
     20, 0, 12, 20, 33, 14, 27, 9, 20, 20, 3, 3, 1, 4, 17, 40, 28, 23, 26, 33,
     38, 1, 31, 4, 33, 9, 27, 32, 35, 32, 37, 28, 29, 14, 10, 17, 8, 4, 23, 8,
     32, 5, 3, 27, 38, 3, 33, 21, 27, 34, 4, 1, 38, 5, 27, 16, 7, 3, 16, 18, 4,
     22, 30, 0, 12, 30, 35, 28, 18, 19, 16, 6, 12, 40, 25, 38, 26, 10, 21, 11,
     1, 24, 34, 36, 4, 3, 21, 17, 32, 3, 31, 38, 32, 13, 26, 17, 8, 8, 13, 11,
     25, 22, 19, 28, 0, 26, 4, 40, 25, 21, 5, 28, 41, 14, 28, 18, 3, 16, 12,
     40, 12, 10, 15, 32, 15, 39, 14, 36, 41, 5, 25, 22, 33, 21, 1, 31, 27, 30,
     3, 40, 7, 11, 19, 20, 14, 35, 16, 33, 35, 12, 4, 41, 27, 19, 10, 32, 22,
     6, 39, 36, 3, 15, 27, 34, 37, 16, 3, 34, 23, 1, 17, 32, 26, 27, 40, 32,
     35, 19, 30, 27, 40, 37, 34, 9, 11, 18, 29, 30, 20, 5, 40, 27, 40, 14, 29,
     13, 35, 3, 6, 0, 35, 39, 23, 41, 37, 16, 24, 13, 31, 35, 18, 20, 23, 22,
     18, 22, 16, 17, 7, 39, 17, 27, 15, 8, 39, 27, 35, 23, 9, 3, 35, 6, 34, 20,
     14, 16, 35, 39, 13, 27, 14, 25, 13, 37, 1, 20, 15, 31, 4, 3, 17, 29, 3,
     23, 15, 31, 40, 5, 37, 22, 30, 9, 9, 36, 30, 38, 24, 36, 38, 27, 14, 25,
     22, 20, 8, 16, 36, 10, 37, 29, 6, 23, 19, 24, 38, 6, 40, 41, 37, 40, 13,
     10, 20, 18, 40, 29, 27, 37, 39, 17, 14, 18, 10, 29, 1, 4, 39, 27, 26, 39,
     9, 10, 16, 14, 16, 26, 18, 0, 28, 25, 12, 24, 18, 0, 9, 40, 13, 4, 40, 34,
     9, 1, 8, 29, 40, 13, 1, 9, 37, 5, 6, 41, 17, 6, 27, 40, 5, 39, 32, 30, 1,
     17, 31, 35, 10, 3, 34, 10, 29, 34, 27, 1, 10, 8, 17, 36, 12, 0, 41, 26,
     11, 30, 15, 36, 35, 29, 10, 35, 30, 21, 16, 36, 24, 15, 29, 8, 32, 19, 21,
     30, 25, 32, 26, 32, 13, 22, 0, 14, 39, 3, 12, 0, 31, 28, 21, 20, 39, 28,
     13, 36, 33, 19, 15, 26, 23, 15, 15, 6, 13, 27, 36, 5, 37, 5, 30, 23, 25,
     7, 5, 31, 3, 9, 5, 16, 7, 7, 27, 12, 12, 36, 22, 39, 6, 25, 14, 0, 6, 0,
     24, 2, 41, 4, 24, 15, 38, 3, 21, 2, 12, 14, 38, 33, 32, 38, 32, 18, 5, 39,
     1, 33, 0, 9, 15, 1, 23, 13, 11, 39, 36, 33, 13, 21, 28, 38, 23, 4, 33, 5,
     8, 24, 6, 26, 16, 38, 13, 6, 39, 37, 15, 18, 16, 23, 13, 13, 25, 32, 19,
     4, 21, 31, 5, 28, 38, 8, 13, 12, 22, 5, 35, 14, 31, 25, 33, 39, 11, 17,
     38, 31, 26, 16, 16, 0, 17, 41, 32, 37, 31, 41, 40, 39, 2, 13, 19, 15, 38,
     1, 5, 4, 32, 39, 2, 26, 5, 38, 38, 28, 39, 33, 29, 19, 4, 7, 32, 2, 23,
     10, 38, 23, 36, 0, 2, 1, 40, 38, 37, 23, 2, 41, 3, 17, 39, 15, 1, 38, 11,
     26, 15, 14, 33, 29, 24, 38, 20, 19, 23, 33, 22, 20, 26, 8, 39, 8, 10, 29,
     22, 28, 7, 22, 39, 10, 29, 30, 28, 35, 19, 28, 24, 29, 35, 13, 21, 31, 11,
     21, 34, 22, 34, 22, 30, 26, 37, 25, 11, 9, 23, 3, 6, 39, 23, 36, 34, 32,
     18, 18, 15, 8, 3, 8, 37, 17, 1, 19, 39, 11, 25, 31, 1, 36, 27, 3, 15, 30,
     36, 24, 4, 0, 17, 32, 15, 30, 29, 31, 2, 27, 17, 37, 15, 38, 18, 14, 11,
     4, 33, 33, 24, 12, 30, 28, 40, 3, 17, 27, 15, 3, 16, 34, 25, 37, 37, 17,
     16, 5, 0, 7, 39, 37, 2, 4, 9, 31, 20, 9, 6, 8, 23, 28, 4, 41, 21, 26, 9,
     10, 1, 0, 19, 4, 22, 38, 26, 41, 24, 21, 4, 4, 36, 29, 32, 21, 22, 27, 3,
     22, 1, 23, 25, 32, 40, 21, 41, 38, 13, 15, 10, 1, 18, 21, 28, 39, 37, 24,
     19, 38, 16, 4, 10, 9, 11, 11, 10, 23, 17, 19, 10, 37, 34, 23, 16, 18, 17,
     39, 29, 27, 27, 26, 1, 22, 31, 22, 17, 28, 9, 26, 17, 24, 35, 27, 38, 26,
     11, 17, 1, 16, 19, 15, 40, 19, 12, 33, 34, 15, 33, 29, 27, 6, 10, 6, 28,
     26, 18, 23, 29, 3, 8, 0, 11, 12, 15, 40, 19, 30, 12, 22, 29, 5, 12, 12, 4,
     25, 24, 28, 5, 10, 23, 2, 10, 9, 4, 4, 32, 11, 29, 33, 5, 39, 36, 26, 15,
     13, 18, 34, 39, 4, 2, 25, 31, 18, 20, 8, 26, 13, 38, 8, 0, 38, 23, 12, 20,
     26, 11, 40, 41, 8, 5, 31, 24, 6, 21, 26, 5, 10, 19, 5, 15, 35, 3, 37, 1,
     37, 29, 20, 2, 11, 26, 25, 40, 10, 20, 34, 21, 8, 0, 12, 32, 6, 12, 24, 4,
     32, 9, 36, 2, 9, 19, 25, 11, 1, 15, 36, 41, 17, 0, 14, 1, 0, 22, 28, 41,
     41, 5, 40, 41, 34, 41, 29, 38, 14, 27, 2, 0, 32, 18, 5, 26, 0, 38, 41, 33,
     15, 5, 5, 26, 33, 5, 41, 12, 30, 4, 35, 9, 38, 40, 5, 8, 19, 34, 17, 9, 1,
     37, 37, 33, 18, 18, 13, 9, 22, 25, 18, 30, 17, 5, 24, 25, 23, 18, 22, 26,
     25, 6, 40, 32, 4, 13, 31, 5, 38, 26, 34, 8, 4, 25, 32, 1, 36, 34, 9, 9,
     37, 11, 12, 40, 0, 33, 10, 8, 15, 39, 35, 34, 26, 28, 1, 6, 30, 14, 30, 7,
     26, 5, 19, 21, 34, 21, 31, 14, 33, 14, 15, 16, 41, 0, 25, 41, 35, 1, 16,
     8, 22, 11, 33, 17, 36, 7, 16, 31, 33, 32, 14, 10, 18, 7, 40, 6, 23, 12, 0,
     14, 29, 28, 36, 26, 2, 16, 21, 23, 23, 12, 12, 12, 8, 8, 1, 41, 34, 0, 10,
     10, 28, 12, 18, 37, 22, 5, 30, 25, 22, 41, 6, 6, 15, 19, 13, 25, 22, 31,
     6, 21, 39, 13, 1, 5, 14, 38, 29, 33, 2, 30, 23, 38, 6, 4, 1, 12, 22, 15,
     40, 6, 5, 0, 31, 19, 14, 21, 3, 26, 28, 41, 38, 4, 37, 15, 15, 3, 23, 39,
     5, 24, 27, 28, 2, 10, 27, 17, 14, 17, 16, 31, 15, 24, 9, 21, 9, 23, 33,
     32, 7, 2, 13, 28, 8, 41, 18, 40, 30, 14, 15, 1, 10, 14, 29, 14, 26, 0, 21,
     36, 25, 23, 21, 1, 8, 21, 29, 30, 5, 23, 31, 37, 21, 1, 15, 22, 35, 6, 12,
     38, 31, 0, 36, 21, 40, 13, 17, 11, 36, 7, 25, 27, 2, 38, 30, 11, 36, 5,
     30, 35, 16, 33, 9, 38, 41, 17, 40, 10, 35, 21, 33, 26, 4, 32, 11, 12, 20,
     6, 11, 31, 18, 41, 25, 41, 17, 7, 7, 2, 32, 37, 13, 34, 6, 11, 17, 5, 11,
     12, 3, 12, 17, 4, 19, 7, 23, 0, 2, 5, 29, 34, 2, 39, 2, 3, 40, 22, 25, 22,
     27, 24, 37, 14, 14, 39, 40, 16, 14, 2, 2, 25, 4, 5, 13, 2, 13, 22, 18, 11,
     41, 14, 34, 27, 11, 6, 18, 14, 20, 27, 13, 27, 19, 26, 23, 36, 26, 12, 30,
     15, 13, 17, 0, 13, 11, 37, 12, 26, 4, 9, 35, 9, 2, 39, 25, 34, 39, 28, 28,
     29, 5, 19, 35, 5, 11, 20, 24, 39, 10, 17, 1, 27, 4, 22, 35, 5, 25, 24, 18,
     32, 24, 18, 39, 31, 16, 4, 2, 24, 36, 26, 30, 34, 14, 33, 13, 21, 27, 28,
     37, 29, 36, 24, 41, 1, 11, 37, 36, 17, 8, 4, 41, 12, 10, 14, 22, 41, 41,
     24, 24, 28, 13, 20, 17, 39, 18, 1, 18, 8, 41, 36, 22, 36, 15, 7, 15, 36,
     23, 41, 37, 7, 33, 32, 27, 19, 7, 33, 16, 29, 8, 14, 19, 40, 0, 21, 18, 8,
     14, 35, 18, 27, 12, 40, 4, 26, 31, 38, 14, 15, 4, 1, 25, 35, 31, 38, 38,
     13, 15, 19, 34, 22, 0, 33, 28, 26, 35, 1, 18, 15, 29, 29, 38, 28, 8, 4,
     27, 20, 31, 1, 24, 36, 34, 36, 26, 27, 2, 2, 21, 24, 38, 10, 21, 30, 21,
     22, 41, 40, 3, 41, 22, 20, 11, 30, 38, 16, 4, 13, 19, 32, 26, 28, 38, 10,
     29, 34, 5, 10, 1, 31, 28, 1, 40, 12, 14, 37, 35, 9, 3, 11, 10, 18, 5, 14,
     13, 6, 40, 28, 37, 21, 12, 13, 8, 31, 35, 9, 5, 21, 34, 2, 36, 32, 21, 39,
     34, 25, 15, 31, 29, 1, 12, 14, 13, 27, 37, 40, 16, 10, 2, 12, 24, 22, 36,
     26, 17, 0, 18, 11, 35, 31, 15, 24, 1, 31, 37, 38, 38, 7, 35, 24, 0, 10,
     31, 16, 11, 14, 17, 32, 18, 37, 30, 19, 41, 11, 32, 19, 14, 3, 15, 41, 5,
     17, 23, 16, 3, 13, 22, 28, 26, 2, 25, 9, 40, 22, 2, 20, 18, 14, 21, 36,
     26, 27, 11, 23, 30, 9, 36, 33, 14, 10, 4, 25, 36, 25, 7, 5, 19, 22, 36, 7,
     19, 32, 6, 5, 31, 3, 17, 28, 10, 31, 40, 22, 6, 27, 24, 32, 27, 30, 28,
     22, 31, 1, 32, 41, 22, 31, 19, 20, 10, 10, 29, 37, 21, 30, 8, 5, 34, 12,
     6, 1, 31, 36, 2, 19, 19, 37, 5, 36, 36, 6, 40, 10, 23, 33, 32, 25, 33, 4,
     38, 19, 26, 24, 26, 26, 38, 41, 13, 6, 38, 22, 28, 11, 4, 10, 4, 39, 31,
     36, 20, 30, 26, 26, 5, 4, 16, 3, 11, 29, 4, 28, 29, 24, 1, 32, 5, 19, 30,
     1, 32, 12, 2, 3, 40, 22, 15, 31, 32, 21, 36, 35, 38, 24, 7, 4, 28, 29, 35,
     38, 12, 6, 12, 7, 28, 36, 40, 0, 14, 31, 9, 6, 2, 12, 18, 0, 15, 34, 0,
     15, 2, 21, 22, 32, 37, 0, 4, 31, 25, 18, 28, 13, 31, 19, 27, 9, 31, 21,
     10, 33, 34, 3, 40, 13, 5, 18, 15, 35, 2, 35, 27, 15, 19, 19, 3, 6, 40, 22,
     21, 8, 18, 7, 41, 40, 11, 9, 16, 40, 14, 15, 29, 27, 1, 11, 21, 12, 17, 1,
     0, 3, 5, 23, 9, 2, 37, 25, 1, 33, 16, 7, 15, 36, 40, 31, 20, 9, 41, 19, 9,
     7, 8, 19, 35, 20, 2, 16, 37, 9, 0, 25, 32, 18, 12, 12, 2, 29, 26, 16, 28,
     34, 15, 15, 16, 11, 36, 19, 4, 29, 26, 27, 30, 33, 8, 2, 30, 31, 4, 18,
     15, 17, 17, 21, 25, 25, 22, 24, 7, 35, 40, 14, 7, 5, 3, 28, 4, 36, 1, 37,
     25, 35, 13, 35, 21, 39, 40, 17, 21, 41, 38, 36, 9, 7, 25, 20, 3, 36, 2,
     14, 27, 14, 1, 13, 26, 7, 21, 16, 39, 29, 10, 2, 24, 28, 10, 11, 18, 18,
     15, 38, 14, 11, 2, 40, 40, 29, 29, 31, 41, 30, 8, 0, 36, 33, 22, 24, 2,
     22, 28, 22, 41, 25, 13, 18, 30, 4, 16, 37, 24, 5, 22, 22, 4, 13, 38, 39,
     8, 0, 19, 6, 22, 13, 35, 30, 9, 15, 9, 4, 37, 4, 5, 26, 23, 6, 14, 23, 39,
     3, 2, 20, 40, 28, 31, 20, 39, 13, 7, 1, 36, 39, 34, 39, 41, 16, 20, 8, 3,
     12, 14, 19, 8, 18, 2, 5, 0, 11, 12, 20, 30, 6, 7, 38, 10, 36, 30, 12, 28,
     40, 3, 11, 31, 39, 27, 23, 1, 18, 29, 31, 13, 2, 33, 1, 36, 12, 37, 26,
     34, 29, 22, 17, 16, 16, 10, 37, 17, 13, 15, 28, 10, 20, 37, 22, 33, 41, 2,
     20, 15, 2, 6, 31, 11, 15, 10, 5, 16, 3, 18, 35, 26, 22, 39, 14, 24, 32,
     24, 11, 38, 35, 33, 9, 29, 13, 26, 26, 23, 28, 17, 7, 38, 28, 28, 38, 35,
     20, 5, 15, 18, 31, 21, 30, 20, 34, 21, 27, 1, 32, 1, 10, 35, 37, 8, 24,
     25, 11, 33, 14, 40, 6, 35, 31, 6, 3, 6, 11, 35, 25, 37, 10, 0, 2, 6, 13,
     36, 7, 6, 3, 14, 11, 20, 11, 19, 21, 3, 8, 25, 34, 14, 20, 23, 32, 24, 28,
     23, 10, 9, 37, 31, 23, 7, 36, 8, 18, 33, 13, 36, 0, 2, 4, 14, 17, 22, 19,
     35, 0, 22, 15, 20, 34, 32, 41, 41, 16, 39, 17, 1, 0, 17, 38, 14, 31, 26,
     17, 6, 5, 37, 26, 10, 12, 16, 0, 22, 20, 4, 14, 10, 29, 19, 33, 7, 13, 41,
     41, 14, 11, 38, 36, 13, 39, 41, 8, 9, 34, 22, 32, 29, 19, 36, 1, 7, 40, 3,
     10, 3, 19, 9, 33, 2, 28, 40, 12, 16, 41, 33, 33, 38, 24, 20, 2, 14, 16,
     35, 21, 41, 28, 41, 22, 31, 32, 23, 25, 5, 40, 19, 3, 17, 32, 38, 10, 22,
     18, 18, 6, 8, 21, 15, 26, 27, 19, 16, 25, 20, 11, 7, 4, 28, 30, 19, 19,
     13, 40, 6, 18, 24, 26, 38, 22, 31, 8, 36, 1, 10, 31, 8, 28, 33, 35, 29,
     10, 41, 0, 25, 21, 6, 23, 23, 25, 28, 5, 31, 30, 12, 9, 28, 25, 16, 25, 3,
     18, 37, 5, 36, 5, 18, 35, 1, 25, 3, 33, 32, 33, 23, 25, 20, 6, 8, 33, 8,
     14, 24, 41, 16, 16, 14, 21, 21, 11, 8, 2, 38, 34, 18, 1, 17, 37, 6, 14, 1,
     7, 2, 13, 30, 29, 22, 2, 19, 11, 23, 9, 9, 21, 38, 20, 24, 28, 18, 30, 26,
     1, 41, 26, 18, 29, 14, 21, 17, 1, 12, 26, 7, 2, 7, 14, 20, 9, 37, 40, 7,
     19, 38, 10, 2, 11, 28, 11, 23, 8, 8, 31, 24, 28, 32, 11, 25, 19, 23, 17,
     25, 21, 28, 26, 34, 39, 3, 7, 30, 26, 5, 30, 27, 25, 14, 15, 31, 37, 20,
     8, 6, 18, 18, 21, 8, 33, 7, 38, 5, 8, 7, 28, 2, 17, 0, 7, 17, 12, 38, 26,
     1, 10, 11, 7, 22, 29, 12, 19, 2, 23, 28, 29, 26, 18, 38, 7, 4, 10, 16, 29,
     0, 12, 7, 17, 33, 33, 2, 4, 18, 14, 13, 29, 40, 40, 30, 27, 24, 22, 33,
     39, 9, 13, 8, 12, 6, 4, 34, 38, 10, 29, 15, 4, 4, 25, 34, 25, 9, 4, 25, 1,
     39, 33, 8, 24, 19, 31, 9, 13, 30, 17, 25, 24, 24, 6, 41, 30, 22, 10, 11,
     4, 7, 34, 6, 11, 30, 4, 19, 40, 26, 12, 8, 33, 38, 28, 31, 2, 15, 3, 5,
     29, 8, 31, 14, 25, 15, 34, 18, 32, 33, 14, 3, 23, 4, 6, 35, 34, 32, 5, 31,
     5, 38, 18, 5, 11, 20, 35, 32, 8, 25, 33, 9, 10, 14, 40, 13, 22, 1, 29, 3,
     18, 16, 26, 30, 32, 22, 28, 29, 41, 27, 26, 38, 32, 2, 18, 38, 32, 5, 13,
     26, 9, 2, 20, 34, 10, 25, 23, 24, 4, 5, 6, 21, 18, 35, 34, 32, 5, 1, 1,
     12, 30, 18, 2, 38, 6, 14, 25, 1, 12, 12, 29, 23, 1, 37, 2, 13, 9, 17, 33,
     25, 23, 37, 32, 10, 1, 16, 20, 13, 21, 41, 41, 17, 17, 17, 20, 21, 5, 39,
     6, 19, 18, 3, 18, 31, 9, 5, 30, 34, 12, 31, 17, 10, 2, 40, 18, 12, 25, 24,
     1, 31, 23, 19, 14, 9, 10, 40, 7, 25, 1, 20, 2, 12, 24, 27, 3, 35, 32, 25,
     6, 5, 11, 9, 34, 14, 14, 13, 0, 25, 3, 15, 41, 21, 32, 19, 21, 25, 37, 13,
     12, 5, 29, 25, 22, 3, 24, 16, 21, 6, 7, 18, 33, 16, 8, 22, 41, 10, 31, 22,
     17, 24, 3, 29, 25, 2, 15, 15, 31, 26, 16, 41, 9, 25, 0, 37, 20, 1, 36, 34,
     12, 20, 0, 18, 13, 4, 25, 0, 28, 23, 41, 36, 30, 13, 10, 14, 6, 25, 7, 14,
     27, 32, 31, 16, 20, 36, 30, 34, 13, 32, 36, 31, 8, 38, 21, 19, 33, 25, 14,
     27, 8, 26, 32, 14, 10, 31, 40, 6, 8, 35, 5, 12, 29, 21, 15, 31, 17, 19,
     41, 39, 39, 17, 24, 13, 17, 17, 28, 14, 33, 1, 33, 8, 4, 38, 15, 38, 21,
     12, 39, 7, 13, 17, 21, 29, 11, 24, 11, 26, 7, 16, 6, 19, 14, 0, 32, 16,
     34, 6, 3, 19, 33, 26, 30, 17, 36, 36, 23, 21, 40, 14, 19, 17, 0, 40, 29,
     4, 26, 18, 28, 11, 31, 32, 22, 12, 28, 5, 34, 5, 36, 16, 28, 22, 29, 29,
     38, 15, 5, 20, 41, 30, 17, 21, 1, 0, 38, 19, 9, 28, 3, 0, 18, 36, 19, 29,
     0, 20, 37, 9, 37, 14, 39, 23, 20, 35, 39, 38, 15, 37, 37, 23, 31, 12, 0,
     3, 12, 10, 12, 21, 24, 7, 35, 16, 24, 27, 12, 39, 17, 31, 37, 41, 35, 40,
     2, 9, 13, 8, 5, 6, 26, 30, 14, 28, 9, 39, 10, 37, 16, 9, 16, 6, 29, 8, 24,
     8, 6, 36, 33, 17, 20, 36, 3, 37, 9, 17, 6, 37, 20, 31, 13, 15, 35, 13, 34,
     8, 35, 23, 23, 4, 31, 33, 39, 11, 9, 2, 19, 2, 10, 32, 13, 11, 28, 34, 9,
     19, 9, 24, 13, 0, 31, 22, 4, 18, 12, 32, 23, 29, 19, 40, 41, 34, 10, 8, 1,
     31, 17, 10, 13, 14, 38, 22, 34, 29, 16, 31, 32, 27, 12, 37, 38, 39, 8, 30,
     21, 35, 26, 7, 39, 15, 37, 24, 24, 17, 5, 41, 19, 35, 16, 37, 25, 35, 16,
     35, 6, 17, 2, 8, 38, 22, 28, 22, 31, 25, 3, 9, 40, 23, 23, 5, 9, 22, 17,
     33, 13, 38, 26, 2, 10, 23, 14, 16, 26, 24, 18, 37, 20, 7, 16, 20, 32, 8,
     37, 9, 13, 38, 13, 8, 20, 24, 29, 21, 5, 11, 9, 35, 11, 23, 37, 10, 30,
     34, 3, 6, 37, 5, 39, 29, 7, 21, 33, 6, 27, 27, 3, 8, 8, 30, 6, 30, 10, 34,
     3, 1, 10, 6, 40, 33, 35, 21, 17, 10, 4, 41, 34, 23, 34, 19, 15, 14, 35,
     39, 29, 29, 22, 27, 39, 31, 38, 20, 11, 0, 40, 36, 5, 8, 39, 17, 33, 6,
     24, 34, 32, 10, 41, 10, 13, 25, 39, 32, 13, 0, 25, 2, 18, 1, 7, 33, 37, 5,
     28, 35, 41, 1, 21, 10, 4, 26, 3, 36, 3, 39, 4, 23, 11, 24, 26, 0, 36, 26,
     23, 31, 36, 40, 32, 14, 24, 35, 23, 2, 4, 41, 19, 27, 7, 6, 20, 31, 1, 9,
     20, 15, 2, 0, 24, 36, 6, 22, 19, 32, 36, 37, 4, 20, 32, 21, 4, 25, 33, 28,
     21, 14, 5, 34, 1, 19, 24, 32, 17, 21, 8, 11, 19, 7, 0, 3, 6, 30, 12, 3, 5,
     21, 22, 39, 35, 14, 19, 21, 16, 40, 33, 8, 11, 24, 29, 10, 17, 25, 12, 11,
     22, 32, 41, 12, 21, 3, 16, 19, 20, 1, 26, 1, 25, 9, 31, 12, 26, 22, 18,
     40, 39, 20, 17, 0, 18, 37, 24, 10, 23, 12, 21, 14, 21, 35, 6, 19, 11, 19,
     5, 3, 32, 31, 24, 12, 30, 18, 39, 8, 14, 25, 7, 16, 18, 17, 24, 16, 11,
     19, 27, 24, 19, 27, 13, 29, 4, 14, 5, 7, 0, 30, 33, 37, 1, 25, 14, 32, 13,
     30, 0, 17, 41, 27, 40, 15, 15, 23, 3, 22, 5, 6, 31, 37, 39, 22, 40, 40,
     40, 4, 7, 20, 34, 28, 17, 26, 41, 21, 25, 17, 22, 3, 41, 18, 30, 8, 1, 11,
     4, 3, 0, 28, 26, 11, 6, 20, 21, 37, 28, 29, 20, 14, 3, 4, 21, 0, 14, 16,
     36, 11, 15, 30, 1, 14, 17, 9, 4, 11, 21, 13, 34, 19, 34, 8, 3, 21, 3, 17,
     19, 14, 24, 12, 5, 33, 21, 40, 20, 35, 32, 31, 27, 40, 24, 25, 18, 38, 2,
     28, 4, 11, 13, 39, 14, 27, 13, 6, 33, 28, 25, 0, 35, 18, 24, 23, 23, 41,
     38, 19, 24, 21, 5, 8, 28, 31, 28, 16, 22, 27, 21, 5, 17, 30, 28, 22, 1,
     16, 0, 23, 38, 29, 36, 38, 39, 12, 37, 2, 37, 30, 34, 6, 27, 39, 37, 11,
     15, 19, 24, 2, 18, 6, 2, 4, 1, 7, 24, 31, 14, 29, 4, 26, 9, 23, 32, 17,
     24, 30, 10, 18, 15, 37, 32, 11, 37, 27, 17, 11, 16, 14, 18, 37, 18, 31, 3,
     5, 13, 13, 37, 32, 5, 14, 6, 1, 0, 37, 21, 29, 3, 17, 23, 19, 6, 14, 28,
     23, 11, 27, 2, 4, 36, 16, 23, 11, 12, 6, 13, 35, 34, 22, 15, 5, 23, 38,
     20, 15, 4, 10, 28, 38, 6, 11, 35, 3, 27, 38, 39, 11, 17, 19, 5, 8, 39, 25,
     25, 35, 25, 20, 31, 5, 33, 23, 0, 34, 39, 29, 15, 28, 38, 0, 6, 10, 1, 3,
     2, 41, 23, 41, 2, 11, 10, 15, 33, 0, 19, 0, 11, 38, 21, 8, 1, 11, 31, 16,
     11, 1, 0, 1, 26, 14, 5, 29, 26, 11, 16, 25, 5, 38, 13, 5, 20, 22, 21, 9,
     35, 37, 19, 11, 30, 18, 4, 7, 9, 37, 21, 1, 9, 18, 15, 1, 37, 41, 27, 30,
     16, 31, 36, 15, 40, 9, 10, 27, 5, 3, 22, 32, 28, 22, 38, 15, 41, 28, 12,
     40, 1, 15, 34, 31, 19, 6, 41, 4, 13, 26, 21, 21, 16, 41, 40, 37, 1, 38,
     34, 4, 36, 36, 11, 23, 20, 33, 35, 32, 0, 32, 19, 35, 11, 28, 21, 7, 34,
     26, 0, 6, 25, 9, 23, 3, 0, 33, 35, 14, 5, 23, 12, 39, 33, 24, 28, 12, 7,
     37, 41, 41, 12, 33, 31, 10, 26, 1, 5, 8, 24, 32, 8, 23, 4, 14, 14, 13, 12,
     22, 3, 14, 16, 8, 32, 11, 13, 19, 23, 8, 38, 26, 41, 0, 15, 3, 5, 37, 16,
     5, 3, 34, 29, 17, 5, 16, 35, 13, 8, 9, 21, 3, 3, 31, 16, 14, 35, 35, 17,
     20, 22, 15, 20, 16, 11, 5, 21, 19, 4, 7, 31, 38, 17, 37, 38, 31, 30, 20,
     34, 14, 37, 32, 17, 26, 11, 5, 6, 38, 22, 39, 40, 28, 23, 33, 4, 6, 30,
     20, 4, 37, 31, 40, 35, 25, 12, 27, 2, 11, 30, 17, 17, 35, 33, 5, 2, 38,
     29, 36, 35, 4, 15, 37, 25, 24, 27, 34, 40, 32, 3, 25, 5, 28, 8, 12, 36,
     33, 11, 8, 8, 16, 15, 20, 1, 31, 34, 22, 31, 34, 18, 0, 31, 41, 15, 29,
     12, 8, 19, 18, 15, 11, 23, 33, 9, 19, 13, 5, 20, 41, 25, 38, 33, 29, 33,
     7, 23, 30, 33, 16, 14, 33, 11, 40, 1, 20, 37, 2, 18, 2, 22, 37, 25, 26,
     29, 40, 4, 0, 27, 8, 32, 22, 40, 7, 26, 0, 11, 30, 12, 3, 32, 7, 21, 9,
     22, 30, 11, 15, 12, 27, 8, 12, 9, 39, 15, 20, 2, 41, 8, 40, 12, 40, 16, 9,
     39, 26, 41, 36, 20, 12, 6, 4, 32, 13, 20, 25, 4, 20, 34, 27, 30, 6, 3, 12,
     20, 11, 18, 12, 7, 6, 2, 19, 27, 34, 15, 6, 31, 10, 24, 35, 7, 41, 4, 30,
     25, 31, 37, 41, 11, 15, 18, 27, 23, 30, 26, 14, 23, 37, 33, 6, 19, 14, 9,
     13, 3, 25, 18, 23, 14, 5, 23, 24, 2, 1, 39, 36, 6, 21, 28, 30, 17, 21, 40,
     5, 15, 15, 15, 38, 28, 39, 39, 10, 34, 22, 26, 26, 26, 26, 37, 34, 40, 41,
     30, 7, 0, 0, 39, 0, 18, 3, 10, 12, 34, 29, 26, 35, 37, 16, 2, 10, 23, 1,
     22, 7, 1, 10, 20, 3, 33, 37, 31, 25, 0, 27, 19, 21, 33, 14, 25, 24, 39,
     24, 24, 18, 19, 10, 9, 25, 0, 40, 8, 21, 34, 18, 2, 9, 3, 18, 35, 2, 10,
     31, 4, 8, 38, 18, 24, 33, 7, 1, 41, 20, 13, 19, 8, 26, 34, 25, 18, 29, 35,
     23, 16, 15, 0, 10, 24, 8, 21, 27, 36, 10, 10, 7, 36, 23, 5, 38, 17, 40,
     26, 41, 31, 39, 10, 7, 28, 8, 39, 31, 7, 13, 20, 36, 32, 12, 7, 33, 12,
     32, 4, 15, 32, 24, 39, 25, 0, 34, 26, 32, 33, 3, 33, 26, 34, 5, 40, 23,
     17, 28, 16, 3, 34, 23, 16, 19, 11, 20, 14, 36, 21, 7, 41, 2, 32, 13, 0,
     38, 24, 29, 16, 34, 34, 23, 10, 36, 27, 9, 4, 40, 33, 36, 7, 14, 18, 4,
     19, 22, 40, 36, 38, 41, 14, 17, 34, 33, 12, 3, 1, 10, 19, 8, 38, 17, 2,
     13, 25, 23, 19, 3, 11, 41, 33, 10, 23, 40, 26, 1, 34, 21, 14, 11, 9, 32,
     23, 5, 2, 29, 8, 10, 23, 26, 38, 12, 37, 38, 0, 13, 30, 0, 27, 33, 25, 1,
     28, 23, 7, 16, 8, 18, 41, 34, 17, 24, 28, 33, 12, 10, 39, 9, 20, 6, 18, 0,
     40, 5, 14, 0, 39, 39, 39, 26, 15, 21, 4, 10, 22, 39, 41, 34, 14, 30, 33,
     32, 33, 22, 16, 0, 3, 22, 13, 19, 3, 24, 24, 30, 29, 8, 27, 3, 7, 3, 25,
     25, 37, 3, 20, 23, 21, 8, 39, 23, 15, 24, 33, 1, 7, 3, 24, 28, 10, 11, 14,
     2, 31, 8, 38, 1, 19, 35, 13, 36, 25, 17, 25, 35, 28, 2, 6, 26, 16, 3, 38,
     31, 13, 31, 39, 17, 26, 9, 9, 21, 38, 35, 38, 26, 35, 33, 27, 36, 39, 41,
     34, 29, 34, 19, 24, 28, 8, 17, 32, 19, 23, 39, 1, 13, 24, 7, 12, 12, 13,
     12, 2, 8, 8, 5, 0, 31, 14, 11, 18, 18, 10, 34, 6, 10, 38, 7, 7, 34, 13,
     41, 3, 34, 21, 17, 14, 0, 5, 19, 14, 7, 27, 0, 4, 13, 4, 21, 22, 30, 11,
     39, 9, 36, 11, 39, 36, 3, 22, 18, 16, 6, 24, 2, 24, 31, 13, 14, 30, 15,
     31, 27, 28, 0, 21, 18, 41, 18, 32, 7, 14, 20, 27, 28, 22, 7, 0, 27, 36,
     34, 9, 14, 10, 35, 30, 25, 18, 10, 8, 15, 28, 32, 31, 34, 1, 23, 16, 37,
     6, 14, 38, 32, 1, 37, 12, 23, 3, 29, 36, 20, 22, 29, 38, 21, 16, 13, 26,
     34, 37, 31, 18, 31, 35, 9, 11, 9, 2, 4, 0, 30, 21, 38, 37, 32, 33, 0, 35,
     10, 17, 32, 31, 11, 23, 34, 1, 11, 3, 3, 22, 14, 15, 20, 40, 30, 40, 38,
     25, 12, 9, 34, 4, 2, 0, 6, 2, 10, 24, 11, 4, 27, 1, 14, 26, 5, 0, 5, 5,
     40, 14, 1, 2, 37, 23, 19, 33, 37, 4, 13, 34, 7, 3, 13, 12, 29, 8, 12, 15,
     15, 23, 5, 41, 5, 34, 0, 12, 18, 26, 26, 20, 1, 25, 16, 27, 35, 19, 3, 36,
     38, 1, 10, 39, 26, 34, 37, 41, 2, 11, 13, 40, 35, 1, 37, 33, 12, 25, 30,
     7, 9, 26, 32, 10, 38, 8, 28, 30, 0, 39, 18, 41, 0, 5, 26, 15, 30, 18, 40,
     4, 14, 21, 5, 9, 19, 39, 4, 41, 30, 22, 40, 22, 28, 21, 32, 3, 6, 31, 31,
     16, 12, 14, 27, 9, 2, 27, 38, 13, 33, 3, 14, 36, 40, 33, 25, 28, 38, 23,
     36, 31, 34, 18, 21, 25, 7, 29, 5, 41, 20, 38, 34, 7, 23, 33, 27, 26, 12,
     8, 17, 33, 4, 27, 38, 23, 16, 11, 16, 22, 27, 9, 1, 40, 12, 5, 40, 24, 20,
     14, 6, 24, 15, 9, 39, 9, 34, 11, 31, 29, 21, 31, 29, 9, 6, 33, 2, 4, 7,
     33, 31, 3, 37, 23, 12, 5, 33, 24, 1, 20, 2, 32, 41, 22, 16, 39, 7, 15, 25,
     25, 31, 4, 37, 22, 35, 22, 1, 34, 2, 34, 24, 24, 0, 39, 35, 17, 2, 34, 25,
     1, 26, 3, 9, 34, 32, 18, 40, 7, 12, 2, 13, 2, 17, 36, 31, 13, 29, 16, 35,
     19, 0, 38, 15, 32, 25, 34, 21, 3, 30, 25, 24, 5, 16, 35, 15, 11, 36, 15,
     41, 14, 19, 12, 2, 13, 16, 37, 3, 35, 16, 10, 33, 4, 24, 38, 40, 9, 39,
     26, 1, 4, 3, 0, 21, 24, 27, 38, 8, 28, 1, 14, 6, 22, 2, 3, 39, 2, 31, 11,
     2, 2, 8, 17, 7, 14, 7, 16, 14, 27, 1, 20, 24, 12, 32, 37, 3, 15, 22, 36,
     24, 0, 18, 5, 10, 33, 8, 4, 33, 32, 25, 19, 26, 23, 41, 9, 29, 35, 30, 1,
     10, 27, 2, 11, 22, 2, 1, 17, 16, 40, 36, 30, 37, 22, 8, 15, 22, 37, 7, 22,
     27, 35, 0, 9, 7, 18, 30, 27, 34, 33, 30, 29, 11, 11, 20, 32, 0, 8, 3, 0,
     6, 20, 6, 19, 0, 12, 13, 6, 27, 26, 8, 33, 16, 19, 15, 30, 14, 22, 34, 36,
     26, 35, 36, 8, 17, 34, 18, 25, 17, 19, 23, 10, 11, 5, 41, 32, 30, 21, 8,
     5, 17, 26, 39, 22, 25, 37, 8, 21, 13, 8, 0, 22, 37, 7, 19, 36, 13, 11, 3,
     32, 13, 26, 33, 16, 7, 8, 30, 2, 26, 14, 31, 38, 12, 33, 20, 27, 40, 8,
     36, 15, 20, 30, 38, 19, 10, 18, 21, 36, 31, 38, 5, 15, 10, 0, 12, 38, 11,
     23, 15, 28, 24, 1, 24, 3, 18, 12, 7, 15, 8, 29, 12, 30, 11, 2, 29, 4, 20,
     20, 14, 29, 33, 13, 35, 20, 27, 28, 13, 23, 37, 6, 33, 19, 23, 8, 29, 20,
     18, 6, 29, 25, 2, 27, 24, 26, 19, 23, 14, 7, 1, 13, 3, 35, 21, 29, 20, 34,
     40, 5, 16, 21, 25, 3, 12, 8, 41, 34, 11, 41, 19, 26, 32, 22, 8, 11, 36,
     31, 9, 10, 8, 20, 3, 6, 15, 9, 40, 23, 32, 28, 30, 27, 2, 26, 27, 2, 31,
     15, 17, 34, 25, 37, 24, 25, 31, 31, 9, 36, 32, 24, 28, 25, 10, 27, 6, 36,
     36, 2, 15, 36, 26, 31, 41, 14, 27, 32, 20, 28, 39, 13, 20, 29, 30, 28, 20,
     34, 9, 28, 37, 20, 29, 31, 35, 41, 22, 4, 3, 1, 4, 5, 24, 19, 5, 2, 26,
     12, 6, 41, 32, 8, 2, 10, 25, 7, 18, 33, 21, 33, 28, 19, 37, 35, 11, 18,
     18, 4, 32, 2, 19, 22, 28, 31, 28, 6, 8, 19, 25, 23, 0, 29, 28, 37, 38, 17,
     16, 21, 31, 3, 9, 11, 9, 7, 11, 11, 1, 31, 22, 37, 37, 34, 18, 34, 15, 6,
     33, 32, 16, 16, 26, 22, 13, 4, 18, 14, 6, 26, 24, 0, 17, 19, 27, 26, 21,
     12, 30, 28, 1, 34, 19, 29, 14, 39, 11, 29, 2, 3, 22, 8, 17, 3, 1, 29, 24,
     6, 19, 28, 24, 10, 31, 29, 10, 8, 37, 3, 15, 1, 8, 24, 29, 17, 12, 1, 22,
     23, 1, 18, 30, 18, 16, 15, 33, 4, 13, 17, 13, 4, 12, 35, 2, 22, 27, 17,
     26, 9, 37, 35, 27, 17, 32, 9, 2, 10, 36, 13, 2, 35, 33, 17, 36, 37, 3, 38,
     0, 41, 23, 6, 26, 17, 40, 39, 9, 4, 1, 26, 1, 35, 25, 35, 27, 0, 14, 15,
     27, 25, 5, 39, 30, 27, 38, 25, 20, 16, 19, 40, 31, 27, 28, 4, 8, 22, 29,
     9, 16, 19, 39, 32, 31, 26, 36, 25, 38, 38, 27, 5, 29, 24, 10, 10, 37, 8,
     31, 13, 9, 27, 19, 27, 18, 33, 40, 38, 34, 24, 26, 18, 21, 31, 41, 0, 16,
     3, 15, 29, 25, 26, 21, 22, 3, 12, 7, 19, 4, 16, 4, 18, 14, 25, 21, 3, 15,
     39, 26, 4, 31, 3, 33, 20, 10, 18, 13, 27, 0, 28, 26, 16, 16, 12, 20, 14,
     38, 31, 34, 6, 28, 22, 8, 31, 5, 27, 31, 8, 9, 1, 18, 35, 30, 15, 36, 36,
     33, 7, 31, 27, 8, 30, 13, 2, 34, 3, 19, 35, 17, 4, 36, 22, 8, 22, 29, 13,
     14, 0, 28, 33, 8, 41, 15, 21, 40, 14, 10, 10, 41, 9, 10, 31, 33, 27, 38,
     18, 27, 37, 33, 29, 37, 15, 7, 26, 16, 7, 26, 27, 21, 19, 5, 33, 11, 7,
     19, 23, 14, 23, 25, 15, 18, 7, 33, 27, 24, 3, 23, 7, 1, 6, 33, 11, 6, 38,
     3, 32, 32, 34, 16, 13, 11, 18, 19, 21, 34, 4, 18, 28, 27, 33, 32, 9, 37,
     11, 18, 4, 31, 35, 21, 18, 18, 0, 40, 29, 5, 22, 31, 12, 37, 12, 26, 33,
     20, 3, 34, 25, 8, 33, 38, 38, 25, 24, 8, 18, 38, 10, 1, 41, 5, 2, 13, 5,
     7, 9, 6, 23, 33, 32, 0, 24, 17, 1, 1, 19, 26, 36, 2, 0, 31, 20, 12, 3, 7,
     27, 25, 36, 29, 10, 14, 37, 24, 10, 35, 27, 26, 16, 27, 40, 20, 13, 9, 30,
     13, 18, 22, 25, 20, 38, 25, 6, 12, 28, 20, 0, 28, 6, 33, 15, 33, 34, 30,
     5, 12, 4, 22, 20, 33, 3, 25, 30, 12, 16, 22, 3, 2, 35, 6, 18, 25, 25, 27,
     26, 39, 19, 6, 4, 31, 33, 4, 36, 0, 9, 10, 41, 18, 35, 20, 8, 20, 25, 37,
     14, 7, 3, 24, 21, 19, 15, 26, 34, 11, 10, 41, 9, 25, 7, 24, 17, 7, 21, 35,
     27, 25, 36, 34, 40, 1, 0, 22, 20, 38, 25, 6, 30, 14, 4, 10, 25, 35, 38, 4,
     9, 3, 1, 27, 34, 26, 9, 21, 12, 14, 32, 7, 11, 39, 35, 4, 5, 37, 22, 14,
     2, 31, 9, 0, 31, 37, 1, 33, 37, 20, 6, 7, 27, 26, 11, 6, 33, 30, 33, 13,
     21, 8, 2, 2, 24, 26, 21, 16, 41, 20, 38, 21, 23, 14, 10, 3, 33, 29, 12,
     23, 12, 6, 34, 28, 33, 7, 18, 25, 40, 28, 29, 30, 20, 22, 26, 26, 27, 34,
     2, 35, 6, 16, 27, 8, 6, 17, 24, 29, 26, 31, 4, 6, 35, 6, 2, 26, 7, 29, 20,
     22, 5, 8, 27, 39, 17, 13, 29, 33, 33, 30, 11, 36, 19, 29, 22, 10, 23, 40,
     11, 20, 38, 24, 21, 38, 36, 32, 0, 11, 4, 25, 37, 29, 13, 21, 29, 8, 30,
     20, 22, 5, 36, 32, 9, 29, 21, 30, 32, 39, 31, 8, 21, 15, 34, 26, 20, 33,
     2, 7, 24, 37, 37, 30, 33, 14, 41, 11, 12, 27, 27, 36, 3, 26, 26, 32, 40,
     13, 10, 17, 14, 12, 29, 15, 14, 36, 3, 34, 5, 18, 24, 10, 25, 37, 20, 27,
     9, 18, 24, 13, 19, 22, 4, 15, 18, 11, 27, 38, 37, 3, 17, 14, 37, 35, 21,
     5, 9, 40, 31, 8, 14, 40, 35, 33, 39, 19, 0, 24, 41, 15, 34, 36, 15, 40,
     23, 9, 26, 32, 6, 31, 6, 17, 1, 22, 33, 21, 4, 22, 3, 23, 38, 9, 17, 5,
     31, 14, 40, 14, 40, 39, 21, 28, 36, 10, 9, 21, 37, 6, 30, 39, 10, 21, 41,
     13, 22, 41, 36, 8, 38, 40, 20, 23, 16, 32, 16, 38, 37, 37, 28, 25, 35, 13,
     21, 38, 28, 5, 21, 14, 7, 7, 35, 10, 23, 28, 6, 39, 40, 7, 13, 4, 18, 26,
     10, 22, 22, 38, 39, 16, 1, 28, 37, 14, 25, 35, 3, 14, 15, 6, 18, 13, 11,
     6, 27, 33, 10, 6, 33, 36, 38, 2, 16, 0, 17, 7, 6, 28, 6, 28, 6, 8, 30, 23,
     10, 28, 37, 13, 3, 9, 28, 17, 31, 39, 15, 16, 14, 3, 33, 38, 9, 22, 34, 5,
     2, 23, 4, 26, 24, 37, 10, 21, 7, 17, 40, 19, 24, 8, 26, 2, 17, 23, 32, 41,
     1, 16, 41, 34, 21, 21, 40, 28, 5, 9, 37, 33, 1, 34, 31, 35, 18, 0, 0, 20,
     39, 39, 3, 33, 32, 36, 9, 21, 3, 17, 7, 11, 0, 13, 0, 3, 29, 21, 3, 9, 27,
     32, 19, 37, 15, 13, 32, 13, 9, 40, 40, 39, 27, 31, 23, 35, 26, 27, 31, 23,
     15, 41, 27, 7, 41, 10, 29, 34, 3, 9, 4, 31, 24, 25, 28, 12, 40, 9, 14, 3,
     20, 29, 41, 22, 12, 13, 14, 2, 0, 13, 29, 10, 36, 8, 31, 33, 5, 2, 13, 6,
     28, 14, 19, 3, 9, 1, 11, 12, 39, 12, 4, 14, 2, 2, 8, 3, 3, 4, 9, 5, 16, 0,
     5, 17, 13, 5, 21, 17, 18, 26, 37, 40, 26, 12, 21, 36, 39, 3, 33, 18, 25,
     11, 39, 2, 23, 17, 1, 14, 6, 29, 16, 3, 8, 5, 6, 8, 38, 7, 6, 18, 34, 9,
     33, 5, 30, 22, 41, 27, 7, 40, 20, 20, 22, 16, 21, 2, 4, 23, 23, 6, 17, 23,
     21, 5, 16, 39, 1, 10, 12, 8, 28, 6, 41, 32, 3, 38, 35, 12, 16, 15, 25, 24,
     2, 9, 34, 14, 36, 19, 4, 36, 40, 1, 2, 34, 22, 38, 11, 3, 0, 24, 35, 23,
     5, 31, 2, 3, 0, 10, 8, 25, 37, 12, 15, 24, 18, 28, 8, 32, 13, 18, 24, 32,
     40, 18, 18, 14, 21, 14, 24, 4, 31, 21, 35, 31, 9, 5, 7, 39, 37, 12, 19,
     35, 40, 20, 34, 31, 38, 39, 24, 20, 24, 41, 21, 2, 37, 33, 35, 9, 2, 36,
     16, 3, 4, 40, 10, 36, 7, 2, 9, 25, 5, 26, 21, 17, 12, 10, 15, 34, 10, 14,
     0, 40, 21, 14, 1, 31, 41, 26, 26, 15, 9, 35, 16, 39, 16, 23, 9, 29, 36,
     23, 0, 12, 22, 13, 8, 26, 28, 35, 19, 13, 35, 33, 25, 27, 37, 36, 15, 16,
     35, 20, 22, 5, 3, 15, 11, 23, 7, 17, 10, 13, 22, 2, 17, 16, 9, 23, 23, 4,
     30, 38, 21, 6, 32, 30, 26, 5, 13, 2, 26, 36, 18, 15, 10, 2, 40, 20, 41,
     41, 30, 37, 3, 9, 28, 36, 25, 15, 21, 21, 0, 21, 11, 10, 33, 34, 19, 39,
     39, 20, 2, 24, 12, 4, 38, 26, 24, 23, 40, 23, 5, 7, 8, 19, 41, 31, 33, 31,
     26, 21, 19, 5, 37, 35, 3, 22, 25, 33, 3, 23, 28, 14, 17, 22, 31, 36, 5,
     35, 28, 9, 18, 17, 21, 29, 4, 40, 32, 21, 14, 39, 32, 13, 0, 20, 35, 14,
     5, 30, 30, 15, 28, 10, 11, 39, 10, 16, 40, 26, 32, 18, 32, 34, 8, 20, 0,
     23, 6, 5, 20, 29, 28, 4, 19, 12, 27, 30, 25, 29, 37, 30, 9, 21, 19, 6, 17,
     27, 11, 28, 40, 24, 13, 23, 32, 11, 30, 2, 35, 17, 38, 18, 24, 22, 6, 7,
     8, 9, 22, 37, 12, 4, 29, 21, 0, 38, 24, 6, 24, 11, 26, 0, 30, 31, 4, 8,
     17, 16, 30, 9, 23, 28, 31, 28, 14, 7, 6, 14, 16, 13, 31, 21, 1, 35, 30,
     17, 29, 31, 5, 19, 19, 32, 2, 28, 36, 31, 21, 12, 14, 22, 40, 17, 34, 39,
     2, 1, 36, 41, 39, 31, 29, 28, 7, 34, 15, 31, 9, 15, 17, 21, 26, 37, 30,
     39, 13, 1, 1, 19, 27, 35, 17, 17, 37, 7, 19, 20, 12, 17, 25, 8, 41, 17,
     17, 4, 40, 20, 0, 41, 33, 13, 6, 24, 10, 38, 35, 35, 8, 22, 1, 5, 11, 7,
     13, 39, 11, 36, 30, 36, 35, 7, 37, 40, 37, 1, 35, 8, 17, 9, 20, 1, 41, 30,
     38, 11, 2, 39, 21, 36, 25, 10, 7, 27, 30, 33, 2, 24, 26, 22, 15, 38, 25,
     28, 3, 9, 15, 30, 20, 7, 33, 22, 33, 20, 0, 20, 33, 31, 26, 29, 2, 34, 4,
     19, 6, 11, 30, 12, 10, 11, 11, 22, 25, 25, 35, 20, 35, 15, 6, 21, 15, 13,
     31, 23, 24, 37, 23, 4, 1, 19, 4, 31, 6, 5, 5, 26, 39, 9, 30, 20, 25, 34,
     31, 34, 17, 40, 36, 32, 6, 7, 3, 28, 17, 23, 18, 17, 37, 1, 7, 3, 21, 24,
     37, 37, 22, 35, 29, 18, 24, 23, 26, 31, 15, 24, 5, 15, 22, 18, 21, 35, 12,
     6, 32, 38, 19, 38, 1, 20, 41, 9, 33, 41, 19, 11, 21, 29, 25, 33, 18, 33,
     40, 22, 11, 26, 21, 5, 26, 12, 29, 8, 7, 36, 31, 28, 35, 19, 29, 27, 32,
     24, 25, 0, 36, 25, 14, 3, 35, 36, 27, 20, 14, 16, 21, 38, 20, 4, 31, 20,
     35, 38, 2, 36, 17, 34, 39, 19, 39, 25, 0, 3, 16, 28, 7, 5, 9, 15, 16, 19,
     18, 31, 6, 24, 5, 10, 16, 34, 20, 20, 36, 18, 39, 36, 2, 41, 36, 40, 8,
     31, 18, 39, 33, 18, 13, 16, 4, 36, 18, 26, 41, 29, 27, 29, 12, 27, 38, 29,
     31, 35, 9, 9, 1, 32, 22, 31, 22, 6, 17, 1, 23, 28, 20, 33, 12, 19, 13, 41,
     22, 7, 21, 35, 25, 16, 40, 25, 23, 18, 24, 3, 33, 17, 2, 29, 38, 37, 37,
     0, 4, 22, 18, 6, 17, 18, 38, 40, 2, 15, 18, 32, 32, 27, 12, 32, 11, 11,
     15, 10, 34, 17, 9, 37, 35, 21, 6, 4, 1, 20, 1, 4, 37, 32, 15, 39, 39, 7,
     28, 21, 22, 13, 2, 12, 13, 8, 36, 24, 23, 30, 32, 29, 12, 13, 35, 17, 25,
     7, 16, 40, 34, 35, 7, 28, 30, 29, 39, 27, 15, 22, 34, 13, 36, 14, 41, 3,
     19, 38, 30, 7, 26, 38, 17, 1, 1, 38, 28, 14, 20, 36, 9, 15, 0, 34, 35, 35,
     32, 34, 10, 18, 16, 6, 25, 37, 32, 30, 32, 0, 11, 13, 34, 33, 40, 22, 12,
     39, 12, 12, 41, 17, 6, 25, 34, 14, 37, 34, 35, 9, 5, 17, 19, 17, 26, 18,
     10, 15, 33, 22, 13, 20, 35, 11, 13, 6, 33, 3, 1, 2, 25, 13, 24, 28, 26, 4,
     39, 40, 19, 10, 40, 26, 38, 10, 19, 7, 16, 15, 9, 2, 19, 25, 4, 37, 10, 4,
     26, 0, 6, 28, 20, 32, 22, 4, 21, 22, 7, 41, 25, 3, 40, 11, 23, 14, 13, 3,
     0, 26, 8, 28, 19, 33, 7, 14, 22, 21, 29, 27, 22, 29, 16, 21, 33, 32, 10,
     27, 33, 18, 0, 25, 3, 37, 38, 41, 28, 10, 37, 21, 0, 17, 9, 14, 37, 32, 4,
     40, 22, 12, 9, 12, 12, 13, 19, 29, 12, 14, 26, 11, 35, 29, 14, 2, 33, 12,
     5, 15, 2, 36, 40, 40, 29, 4, 10, 40, 41, 34, 36, 18, 13, 29, 1, 26, 27,
     18, 1, 36, 41, 3, 18, 14, 20, 24, 38, 9, 40, 24, 12, 37, 21, 39, 15, 27,
     2, 25, 2, 8, 13, 38, 15, 30, 21, 30, 2, 27, 5, 28, 19, 6, 37, 39, 10, 0,
     24, 40, 38, 11, 19, 15, 4, 17, 35, 3, 13, 30, 41, 18, 31, 28, 24, 40, 0,
     27, 5, 31, 37, 25, 39, 21, 26, 11, 37, 0, 39, 18, 1, 1, 1, 23, 39, 25, 15,
     20, 6, 0, 4, 19, 36, 4, 17, 41, 21, 6, 38, 30, 25, 18, 18, 6, 4, 41, 22,
     21, 34, 5, 25, 12, 13, 21, 11, 41, 8, 19, 0, 3, 19, 16, 38, 27, 6, 6, 3,
     9, 26, 22, 36, 9, 41, 19, 13, 16, 32, 15, 32, 28, 17, 38, 5, 9, 38, 4, 33,
     5, 24, 33, 41, 34, 10, 2, 30, 15, 20, 4, 4, 26, 37, 35, 39, 13, 14, 34,
     13, 11, 8, 31, 16, 32, 22, 17, 14, 9, 10, 0, 23, 32, 38, 35, 18, 8, 12, 3,
     16, 32, 15, 33, 29, 28, 17, 16, 12, 2, 38, 12, 10, 21, 3, 34, 8, 40, 21,
     7, 3, 5, 37, 15, 41, 33, 14, 32, 19, 27, 10, 12, 22, 21, 14, 23, 8, 21,
     17, 36, 23, 18, 10, 1, 19, 22, 8, 31, 6, 9, 18, 21, 25, 14, 10, 35, 1, 21,
     9, 14, 39, 9, 2, 25, 2, 24, 20, 36, 15, 39, 36, 6, 6, 2, 3, 8, 19, 27, 14,
     40, 36, 24, 35, 3, 31, 12, 6, 27, 18, 35, 33, 22, 21, 27, 1, 39, 16, 16,
     36, 18, 30, 30, 17, 12, 22, 10, 25, 10, 3, 24, 33, 34, 32, 32, 17, 10, 32,
     18, 0, 15, 9, 2, 17, 39, 20, 3, 3, 5, 19, 18, 28, 37, 1, 32, 1, 5, 21, 27,
     40, 29, 29, 34, 33, 1, 11, 36, 0, 9, 10, 24, 40, 17, 35, 35, 34, 14, 1,
     14, 39, 28, 28, 21, 12, 22, 27, 38, 4, 40, 39, 10, 32, 18, 14, 32, 8, 37,
     33, 34, 41, 2, 25, 30, 18, 36, 5, 20, 18, 5, 21, 20, 39, 40, 30, 36, 22,
     41, 17, 19, 21, 21, 2, 9, 19, 26, 33, 18, 41, 34, 32, 23, 37, 13, 9, 23,
     6, 37, 13, 3, 30, 24, 37, 26, 1, 17, 9, 30, 32, 17, 28, 11, 37, 10, 35,
     41, 9, 34, 23, 28, 39, 0, 20, 30, 23, 18, 21, 10, 14, 5, 9, 39, 11, 9, 24,
     40, 10, 1, 41, 34, 6, 5, 10, 2, 9, 27, 28, 38, 39, 34, 3, 39, 11, 12, 5,
     10, 13, 36, 5, 30, 31, 2, 16, 18, 12, 27, 36, 33, 31, 36, 32, 41, 19, 21,
     31, 21, 0, 28, 40, 17, 0, 19, 19, 31, 3, 24, 38, 0, 6, 4, 0, 38, 20, 30,
     20, 20, 3, 15, 28, 13, 28, 28, 12, 11, 36, 0, 26, 40, 30, 29, 2, 39, 36,
     38, 5, 15, 18, 5, 7, 18, 39, 2, 11, 39, 39, 17, 19, 22, 41, 12, 29, 40,
     31, 36, 40, 39, 3, 14, 7, 0, 8, 14, 27, 19, 4, 38, 26, 31, 6, 17, 10, 25,
     21, 31, 20, 22, 41, 22, 3, 40, 1, 35, 4, 29, 5, 2, 25, 8, 6, 0, 18, 1, 34,
     12, 27, 33, 34, 15, 19, 34, 32, 33, 10, 11, 34, 6, 3, 0, 37, 6, 10, 1, 19,
     24, 39, 32, 26, 36, 25, 13, 39, 29, 16, 25, 1, 21, 21, 40, 20, 8, 12, 30,
     22, 38, 33, 30, 24, 34, 28, 11, 41, 20, 24, 6, 5, 0, 5, 36, 29, 38, 6, 40,
     3, 3, 17, 30, 12, 13, 18, 7, 22, 24, 26, 14, 38, 27, 0, 37, 10, 38, 11,
     14, 1, 22, 36, 25, 33, 29, 27, 7, 31, 25, 9, 25, 21, 7, 11, 21, 16, 1, 10,
     0, 3, 3, 4, 15, 27, 2, 22, 13, 22, 5, 22, 35, 23, 12, 28, 21, 6, 6, 27,
     22, 18, 38, 36, 39, 15, 39, 29, 38, 36, 1, 20, 22, 13, 30, 8, 39, 10, 22,
     10, 4, 5, 31, 28, 37, 1, 28, 35, 1, 35, 6, 33, 35, 29, 0, 28, 14, 27, 40,
     34, 40, 21, 27, 32, 10, 11, 20, 37, 5, 22, 30, 25, 6, 33, 4, 26, 11, 0,
     26, 32, 8, 2, 8, 27, 3, 2, 27, 8, 26, 1, 23, 39, 22, 41, 30, 12, 6, 27,
     36, 19, 40, 15, 4, 10, 32, 14, 13, 10, 33, 8, 22, 7, 22, 14, 35, 17, 11,
     38, 2, 17, 6, 20, 20, 36, 15, 10, 25, 14, 10, 38, 23, 16, 41, 24, 8, 27,
     38, 6, 38, 33, 34, 13, 0, 36, 23, 0, 19, 20, 6, 24, 30, 4, 39, 7, 38, 34,
     26, 40, 30, 16, 27, 15, 16, 9, 34, 22, 22, 28, 19, 8, 32, 40, 31, 6, 19,
     26, 34, 32, 16, 17, 34, 9, 4, 24, 1, 32, 37, 0, 34, 19, 17, 4, 33, 34, 35,
     17, 9, 38, 26, 22, 32, 35, 5, 9, 40, 35, 4, 12, 20, 7, 35, 12, 35, 21, 28,
     3, 8, 26, 17, 10, 10, 15, 7, 4, 1, 22, 28, 12, 32, 1, 31, 23, 19, 18, 1,
     23, 38, 26, 31, 0, 5, 9, 32, 20, 4, 21, 32, 16, 33, 19, 18, 15, 19, 29,
     41, 41, 4, 30, 32, 29, 30, 9, 40, 23, 35, 29, 27, 3, 21, 4, 18, 31, 0, 6,
     14, 29, 1, 34, 2, 29, 35, 4, 17, 26, 6, 15, 22, 15, 21, 27, 36, 25, 41, 5,
     10, 18, 32, 37, 0, 25, 40, 2, 1, 41, 1, 23, 1, 10, 7, 13, 31, 40, 18, 1,
     20, 40, 40, 31, 25, 7, 17, 9, 6, 30, 31, 6, 24, 17, 5, 41, 3, 20, 9, 37,
     1, 40, 31, 32, 38, 27, 32, 23, 29, 15, 4, 27, 8, 36, 12, 22, 0, 30, 35,
     25, 8, 25, 13, 17, 19, 6, 17, 20, 36, 6, 14, 40, 21, 7, 41, 40, 28, 4, 3,
     34, 4, 38, 29, 37, 10, 39, 33, 11, 30, 3, 27, 17, 17, 12, 25, 37, 19, 12,
     0, 17, 15, 40, 23, 31, 37, 6, 35, 38, 27, 3, 13, 41, 35, 23, 29, 34, 34,
     34, 36, 13, 29, 32, 19, 20, 10, 41, 23, 6, 11, 14, 13, 39, 26, 0, 9, 35,
     40, 34, 5, 28, 14, 11, 12, 31, 4, 9, 36, 1, 25, 11, 17, 38, 7, 37, 0, 34,
     37, 27, 4, 40, 6, 10, 22, 5, 38, 41, 36, 35, 28, 15, 5, 34, 36, 28, 33,
     21, 10, 7, 25, 19, 9, 38, 23, 8, 24, 13, 32, 4, 25, 1, 39, 26, 29, 32, 10,
     28, 12, 20, 5, 22, 2, 28, 21, 30, 32, 8, 30, 8, 31, 33, 41, 33, 9, 21, 18,
     23, 3, 6, 40, 32, 36, 32, 25, 7, 37, 10, 3, 21, 2, 6, 0, 28, 40, 33, 25,
     40, 41, 5, 5, 17, 23, 39, 22, 25, 29, 1, 18, 24, 7, 4, 19, 22, 17, 37, 20,
     29, 0, 40, 30, 36, 17, 33, 27, 32, 34, 40, 37, 30, 21, 27, 2, 0, 7, 31,
     24, 11, 39, 0, 13, 20, 36, 5, 19, 11, 36, 31, 3, 30, 0, 29, 29, 5, 39, 29,
     30, 3, 0, 14, 13, 2, 11, 7, 26, 29, 20, 19, 19, 23, 30, 3, 18, 14, 5, 17,
     29, 10, 1, 25, 11, 4, 36, 26, 14, 37, 14, 22, 37, 37, 38, 4, 34, 7, 22, 3,
     22, 0, 23, 40, 10, 31, 6, 17, 27, 31, 6, 27, 9, 31, 7, 15, 14, 26, 37, 1,
     38, 6, 33, 13, 3, 9, 27, 40, 12, 32, 7, 1, 28, 8, 6, 32, 23, 35, 19, 8,
     19, 26, 7, 10, 37, 0, 23, 19, 35, 38, 41, 41, 29, 19, 11, 1, 11, 25, 21,
     18, 16, 38, 14, 0, 26, 15, 21, 36, 36, 16, 9, 26, 12, 41, 31, 14, 39, 27,
     0, 39, 13, 1, 1, 14, 16, 41, 39, 26, 12, 32, 20, 11, 18, 31, 24, 4, 4, 16,
     26, 33, 0, 11, 22, 30, 31, 37, 14, 33, 37, 17, 16, 31, 3, 29, 31, 23, 38,
     4, 13, 20, 19, 22, 1, 28, 25, 3, 40, 36, 37, 35, 4, 17, 6, 1, 9, 5, 26,
     34, 0, 14, 16, 8, 24, 28, 21, 14, 6, 31, 4, 5, 34, 37, 18, 31, 1, 17, 31,
     19, 16, 10, 33, 24, 33, 38, 25, 24, 40, 22, 14, 41, 3, 10, 12, 30, 22, 7,
     41, 41, 41, 26, 15, 24, 4, 31, 31, 23, 2, 15, 11, 33, 4, 14, 29, 36, 10,
     8, 38, 31, 31, 9, 21, 3, 34, 34, 40, 12, 2, 41, 21, 37, 27, 38, 23, 22,
     22, 9, 29, 41, 8, 20, 7, 3, 8, 6, 22, 27, 34, 14, 17, 9, 9, 24, 35, 28, 3,
     33, 8, 20, 41, 23, 41, 32, 36, 41, 10, 7, 31, 22, 5, 4, 0, 17, 34, 14, 37,
     13, 36, 40, 22, 4, 24, 35, 25, 14, 1, 34, 3, 39, 3, 18, 37, 11, 18, 11,
     32, 12, 8, 26, 30, 24, 1, 17, 3, 17, 31, 36, 27, 32, 17, 10, 33, 38, 23,
     2, 1, 16, 38, 35, 1, 14, 32, 17, 17, 6, 7, 20, 34, 18, 19, 26, 39, 24, 4,
     34, 27, 32, 18, 8, 13, 4, 19, 15, 14, 19, 10, 13, 9, 10, 40, 19, 37, 14,
     6, 9, 1, 13, 28, 38, 11, 0, 12, 23, 31, 0, 16, 12, 12, 27, 17, 2, 30, 33,
     30, 39, 27, 17, 0, 5, 9, 0, 21, 35, 33, 2, 3, 17, 38, 10, 33, 1, 1, 41,
     25, 37, 3, 6, 38, 10, 15, 12, 24, 9, 19, 30, 11, 36, 38, 5, 13, 18, 33,
     30, 40, 4, 16, 34, 37, 1, 19, 1, 18, 35, 24, 10, 35, 14, 13, 40, 35, 6,
     38, 36, 23, 15, 12, 30, 24, 12, 6, 39, 19, 34, 10, 5, 24, 41, 22, 0, 31,
     37, 23, 41, 7, 26, 29, 26, 35, 1, 1, 12, 7, 19, 9, 24, 35, 25, 38, 15, 26,
     13, 34, 0, 35, 11, 17, 0, 1, 14, 0, 29, 40, 38, 34, 25, 18, 10, 26, 10,
     14, 12, 15, 3, 22, 15, 5, 14, 11, 20, 26, 20, 6, 41, 32, 5, 9, 0, 14, 9,
     7, 6, 9, 31, 37, 22, 15, 23, 24, 22, 20, 5, 12, 41, 39, 33, 0, 14, 22, 18,
     31, 13, 29, 41, 19, 24, 26, 36, 39, 14, 31, 20, 4, 28, 0, 26, 37, 22, 18,
     6, 16, 14, 19, 9, 10, 38, 11, 13, 15, 17, 31, 23, 31, 31, 15, 17, 35, 35,
     19, 22, 0, 13, 29, 30, 36, 10, 17, 25, 32, 18, 28, 1, 7, 38, 21, 4, 31,
     17, 21, 39, 35, 20, 16, 21, 18, 34, 2, 4, 40, 35, 27, 0, 24, 5, 33, 0, 9,
     14, 17, 39, 32, 5, 11, 3, 34, 5, 21, 26, 23, 0, 0, 5, 26, 35, 34, 20, 11,
     18, 33, 40, 36, 8, 29, 29, 31, 26, 22, 1, 35, 8, 19, 26, 16, 14, 11, 38,
     13, 15, 32, 21, 13, 22, 8, 26, 28, 14, 30, 1, 9, 22, 32, 38, 26, 6, 7, 22,
     7, 24, 25, 8, 10, 33, 7, 24, 34, 9, 16, 3, 23, 38, 9, 14, 13, 5, 19, 36,
     28, 1, 22, 35, 17, 40, 8, 33, 7, 22, 12, 8, 32, 28, 29, 31, 31, 35, 16,
     20, 37, 14, 22, 30, 7, 32, 8, 5, 20, 27, 33, 31, 20, 0, 3, 30, 0, 38, 8,
     39, 37, 14, 0, 0, 9, 29, 13, 24, 28, 4, 31, 2, 24, 7, 21, 40, 26, 5, 23,
     7, 22, 24, 10, 29, 20, 9, 30, 8, 27, 32, 8, 22, 14, 12, 20, 4, 31, 2, 27,
     27, 30, 10, 25, 40, 16, 5, 24, 5, 36, 18, 5, 10, 9, 9, 5, 33, 13, 12, 26,
     1, 9, 25, 3, 9, 5, 11, 29, 41, 8, 23, 9, 19, 37, 9, 0, 12, 1, 6, 22, 28,
     19, 22, 1, 26, 16, 17, 1, 11, 33, 21, 38, 28, 7, 10, 6, 5, 21, 34, 31, 18,
     32, 12, 12, 19, 38, 27, 6, 3, 40, 13, 35, 29, 11, 7, 2, 5, 38, 15, 16, 4,
     18, 39, 2, 14, 26, 5, 24, 18, 19, 37, 39, 14, 28, 16, 32, 10, 24, 35, 14,
     5, 35, 24, 17, 24, 40, 24, 9, 10, 34, 20, 7, 35, 35, 40, 20, 33, 21, 32,
     23, 37, 11, 12, 8, 34, 41, 17, 25, 10, 36, 26, 0, 2, 9, 3, 2, 19, 2, 16,
     37, 16, 7, 33, 21, 36, 13, 36, 4, 18, 13, 15, 3, 27, 24, 39, 25, 26, 28,
     1, 19, 28, 38, 37, 41, 20, 3, 39, 11, 21, 10, 26, 10, 11, 12, 40, 1, 14,
     37, 3, 22, 25, 34, 15, 29, 41, 14, 6, 12, 16, 38, 41, 12, 30, 31, 37, 12,
     5, 37, 21, 11, 28, 21, 4, 25, 12, 16, 25, 26, 33, 32, 24, 4, 41, 8, 30,
     19, 38, 38, 21, 21, 30, 29, 34, 4, 24, 12, 27, 40, 8, 15, 37, 34, 25, 8,
     40, 7, 16, 2, 39, 34, 11, 9, 25, 39, 9, 4, 27, 4, 20, 20, 6, 3, 8, 12, 37,
     39, 26, 0, 41, 24, 39, 20, 6, 4, 39, 37, 30, 16, 36, 26, 5, 6, 34, 37, 18,
     39, 3, 37, 34, 26, 5, 27, 5, 16, 20, 17, 39, 34, 13, 23, 39, 21, 14, 19,
     4, 7, 12, 7, 19, 14, 24, 35, 23, 19, 13, 34, 38, 32, 33, 11, 24, 20, 7, 5,
     26, 9, 25, 12, 41, 34, 19, 14, 33, 38, 7, 34, 5, 11, 21, 36, 19, 34, 41,
     25, 12, 28, 22, 6, 40, 26, 5, 35, 5, 7, 37, 10, 32, 25, 26, 2, 40, 23, 10,
     3, 25, 19, 30, 9, 27, 2, 11, 27, 4, 9, 30, 25, 18, 8, 8, 29, 41, 23, 15,
     4, 11, 33, 40, 36, 22, 3, 36, 25, 7, 36, 40, 14, 14, 14, 35, 13, 5, 12, 8,
     12, 6, 13, 37, 4, 33, 40, 5, 33, 39, 33, 21, 23, 13, 13, 14, 24, 40, 34,
     13, 32, 34, 10, 23, 27, 17, 19, 3, 16, 14, 13, 31, 0, 6, 18, 22, 8, 9, 18,
     23, 23, 13, 33, 33, 9, 36, 0, 34, 17, 24, 31, 28, 12, 30, 16, 2, 8, 4, 16,
     35, 8, 18, 31, 18, 18, 14, 33, 21, 16, 14, 15, 20, 11, 9, 16, 41, 30, 16,
     12, 4, 22, 40, 20, 25, 23, 24, 26, 21, 40, 20, 18, 12, 17, 24, 14, 27, 39,
     32, 20, 31, 18, 6, 21, 11, 28, 31, 19, 12, 4, 29, 25, 17, 19, 10, 1, 1, 2,
     4, 20, 33, 3, 8, 35, 39, 30, 37, 1, 39, 5, 17, 23, 8, 22, 11, 31, 22, 35,
     12, 22, 14, 9, 33, 40, 31, 1, 39, 10, 21, 22, 13, 8, 27, 13, 14, 12, 13,
     38, 37, 8, 35, 34, 8, 1, 33, 21, 12, 7, 12, 11, 22, 39, 24, 8, 0, 27, 0,
     14, 38, 27, 26, 15, 7, 39, 38, 3, 8, 36, 34, 41, 14, 14, 12, 41, 23, 37,
     2, 30, 27, 38, 4, 29, 36, 27, 26, 12, 13, 23, 40, 37, 35, 17, 35, 23, 6,
     1, 24, 16, 36, 21, 11, 35, 35, 1, 18, 28, 38, 25, 24, 22, 25, 2, 33, 7,
     13, 0, 35, 29, 35, 40, 15, 11, 2, 9, 10, 34, 4, 16, 40, 0, 24, 34, 11, 18,
     1, 40, 37, 6, 37, 8, 38, 39, 6, 23, 31, 8, 37, 24, 10, 26, 37, 12, 4, 41,
     34, 29, 0, 28, 6, 5, 21, 16, 40, 23, 37, 35, 25, 6, 5, 32, 21, 21, 6, 24,
     12, 33, 23, 23, 41, 12, 12, 16, 27, 15, 28, 6, 20, 23, 36, 6, 6, 31, 8,
     17, 24, 13, 2, 40, 15, 17, 30, 27, 17, 38, 20, 29, 0, 27, 9, 39, 6, 8, 17,
     36, 23, 41, 30, 0, 5, 33, 8, 21, 17, 31, 20, 5, 28, 9, 39, 4, 34, 28, 5,
     31, 5, 38, 9, 19, 2, 41, 21, 9, 0, 16, 31, 6, 39, 13, 38, 40, 37, 3, 16,
     6, 32, 22, 10, 29, 10, 28, 22, 2, 40, 7, 13, 36, 27, 25, 28, 36, 35, 7, 5,
     4, 41, 36, 30, 6, 7, 34, 10, 0, 36, 21, 13, 26, 10, 30, 15, 41, 17, 20,
     33, 37, 26, 15, 39, 2, 7, 37, 18, 28, 26, 4, 34, 15, 9, 29, 3, 7, 31, 26,
     1, 31, 33, 30, 35, 6, 37, 5, 7, 31, 17, 4, 29, 11, 18, 22, 40, 6, 32, 32,
     23, 13, 25, 7, 9, 5, 22, 6, 26, 37, 7, 35, 10, 30, 19, 33, 26, 2, 27, 24,
     27, 23, 34, 37, 31, 13, 22, 29, 28, 2, 22, 12, 28, 20, 37, 40, 25, 26, 18,
     24, 35, 2, 37, 20, 17, 38, 1, 2, 12, 5, 17, 39, 4, 6, 9, 0, 26, 23, 39, 3,
     7, 20, 40, 0, 4, 21, 35, 5, 41, 26, 6, 13, 39, 14, 5, 27, 5, 25, 37, 12,
     21, 21, 38, 38, 7, 11, 20, 36, 12, 15, 29, 11, 36, 32, 24, 40, 32, 25, 10,
     23, 30, 37, 26, 30, 25, 1, 1, 12, 8, 18, 3, 10, 5, 38, 26, 12, 6, 40, 18,
     34, 11, 40, 40, 30, 12, 21, 33, 37, 8, 20, 36, 30, 25, 10, 21, 32, 26, 4,
     37, 38, 30, 13, 28, 23, 0, 17, 34, 16, 41, 33, 8, 9, 14, 8, 11, 28, 5, 35,
     41, 22, 37, 23, 26, 19, 20, 24, 40, 25, 37, 24, 12, 40, 6, 21, 12, 11, 6,
     0, 3, 19, 5, 24, 40, 12, 3, 15, 38, 23, 18, 33, 18, 1, 39, 40, 32, 33, 4,
     8, 11, 0, 15, 12, 21, 8, 10, 12, 31, 36, 8, 32, 5, 18, 18, 31, 19, 29, 10,
     24, 24, 32, 40, 29, 10, 10, 16, 33, 29, 30, 14, 1, 13, 11, 38, 20, 11, 19,
     36, 38, 5, 11, 6, 40, 31, 4, 30, 24, 12, 30, 22, 2, 38, 24, 18, 39, 3, 30,
     27, 37, 7, 34, 39, 7, 8, 5, 29, 30, 11, 14, 36, 27, 11, 32, 16, 8, 40, 23,
     7, 35, 39, 30, 26, 32, 36, 6, 27, 9, 8, 38, 32, 29, 34, 20, 18, 23, 35, 0,
     23, 41, 19, 36, 28, 22, 37, 33, 12, 41, 16, 10, 13, 5, 33, 20, 25, 23, 8,
     2, 23, 41, 16, 28, 30, 7, 29, 23, 6, 30, 33, 33, 15, 20, 15, 12, 33, 16,
     20, 6, 26, 14, 27, 1, 24, 6, 37, 15, 36, 4, 17, 18, 38, 30, 31, 40, 5, 1,
     29, 37, 13, 32, 33, 4, 26, 21, 8, 25, 38, 29, 30, 27, 33, 26, 21, 41, 34,
     23, 37, 9, 2, 5, 17, 14, 9, 15, 11, 34, 11, 8, 17, 21, 12, 19, 5, 13, 38,
     41, 6, 13, 33, 27, 8, 28, 25, 7, 2, 20, 2, 36, 24, 2, 3, 5, 24, 10, 31, 4,
     37, 16, 26, 10, 28, 24, 14, 41, 7, 14, 28, 5, 34, 0, 25, 11, 16, 39, 12,
     2, 27, 6, 33, 28, 11, 27, 14, 12, 3, 11, 20, 10, 30, 41, 41, 9, 12, 25, 6,
     41, 39, 11, 34, 17, 40, 35, 35, 26, 11, 9, 13, 8, 14, 4, 12, 12, 4, 0, 4,
     3, 21, 27, 1, 12, 32, 36, 13, 18, 25, 5, 14, 3, 19, 33, 12, 25, 19, 23,
     37, 15, 15, 9, 33, 40, 38, 15, 33, 25, 36, 36, 26, 1, 16, 34, 17, 21, 10,
     29, 36, 33, 34, 16, 23, 1, 29, 6, 41, 15, 12, 10, 25, 12, 31, 22, 3, 23,
     20, 12, 10, 20, 15, 14, 19, 24, 10, 36, 34, 41, 26, 1, 38, 0, 11, 40, 16,
     11, 3, 23, 9, 24, 31, 15, 25, 32, 23, 18, 6, 37, 33, 35, 30, 1, 35, 17,
     23, 0, 26, 6, 25, 39, 24, 30, 34, 27, 35, 35, 35, 9, 22, 34, 38, 11, 36,
     21, 10, 38, 1, 5, 3, 37, 27, 19, 31, 31, 0, 38, 8, 18, 25, 24, 26, 37, 7,
     10, 38, 37, 19, 16, 14, 11, 26, 18, 40, 22, 23, 8, 2, 27, 6, 21, 2, 16,
     11, 35, 36, 4, 26, 36, 31, 30, 14, 25, 31, 8, 5, 29, 3, 8, 10, 7, 8, 3, 1,
     36, 27, 19, 4, 11, 39, 23, 18, 39, 2, 2, 16, 22, 16, 2, 38, 36, 31, 11, 0,
     27, 26, 18, 0, 14, 18, 11, 12, 8, 13, 27, 0, 29, 25, 30, 41, 31, 16, 13,
     19, 31, 0, 20, 0, 23, 12, 26, 5, 20, 11, 7, 29, 13, 2, 15, 4, 37, 36, 37,
     34, 40, 16, 19, 10, 41, 23, 2, 14, 38, 33, 2, 2, 30, 27, 27, 15, 20, 37,
     28, 26, 17, 11, 25, 16, 17, 11, 6, 39, 16, 22, 10, 28, 7, 19, 4, 5, 34,
     17, 1, 15, 24, 2, 16, 33, 39, 33, 21, 36, 1, 15, 40, 28, 27, 7, 13, 33,
     24, 28, 38, 12, 4, 9, 15, 39, 6, 29, 31, 5, 12, 34, 32, 9, 13, 4, 8, 31,
     29, 14, 19, 41, 5, 20, 7, 6, 29, 0, 25, 33, 22, 12, 6, 24, 36, 39, 33, 26,
     9, 15, 21, 25, 23, 25, 19, 7, 1, 24, 4, 39, 27, 30, 34, 20, 10, 29, 10, 0,
     16, 35, 15, 9, 34, 16, 40, 33, 24, 33, 30, 16, 5, 1, 17, 7, 22, 17, 0, 1,
     36, 35, 26, 41, 3, 4, 16, 18, 20, 19, 24, 39, 35, 35, 23, 32, 14, 33, 38,
     18, 5, 6, 29, 1, 10, 16, 11, 35, 14, 13, 19, 35, 34, 18, 16, 11, 41, 7,
     22, 4, 12, 22, 12, 38, 35, 23, 12, 24, 35, 5, 41, 37, 37, 40, 26, 31, 30,
     13, 34, 5, 23, 8, 38, 41, 33, 4, 24, 6, 1, 29, 19, 11, 0, 19, 7, 33, 9,
     36, 25, 32, 23, 37, 13, 28, 32, 26, 41, 34, 0, 12, 34, 34, 31, 14, 18, 1,
     12, 19, 34, 37, 18, 30, 21, 33, 28, 14, 27, 0, 40, 41, 22, 31, 12, 17, 21,
     1, 37, 23, 15, 10, 41, 13, 20, 0, 2, 33, 8, 3, 37, 2, 38, 36, 18, 31, 16,
     37, 38, 15, 20, 28, 33, 41, 19, 7, 31, 4, 39, 0, 15, 9, 26, 34, 32, 29, 5,
     16, 23, 12, 18, 14, 16, 15, 40, 25, 17, 18, 20, 34, 37, 41, 20, 14, 24,
     41, 40, 19, 36, 5, 33, 22, 12, 31, 21, 41, 30, 20, 9, 10, 23, 18, 11, 32,
     36, 19, 7, 7, 7, 2, 37, 0, 39, 25, 16, 41, 23, 4, 35, 5, 5, 40, 18, 40,
     25, 26, 9, 29, 29, 12, 6, 41, 9, 4, 40, 22, 27, 1, 35, 7, 29, 25, 24, 16,
     0, 15, 31, 39, 3, 11, 20, 22, 26, 35, 16, 10, 18, 33, 40, 17, 2, 27, 27,
     37, 36, 10, 30, 15, 7, 27, 6, 25, 25, 25, 19, 19, 17, 13, 27, 21, 20, 3,
     16, 15, 19, 0, 18, 27, 2, 41, 11, 11, 11, 13, 27, 11, 38, 24, 33, 33, 7,
     33, 11, 19, 5, 20, 40, 6, 41, 24, 9, 30, 23, 14, 17, 23, 32, 29, 5, 23,
     30, 33, 6, 40, 7, 10, 19, 37, 40, 12, 2, 11, 25, 34, 3, 25, 6, 8, 31, 25,
     4, 40, 29, 4, 34, 16, 2, 3, 24, 6, 19, 35, 31, 21, 33, 17, 0, 28, 39, 37,
     31, 41, 0, 11, 7, 16, 41, 9, 24, 31, 36, 25, 23, 40, 34, 11, 28, 12, 8,
     34, 20, 40, 38, 13, 21, 31, 14, 7, 33, 19, 38, 30, 7, 18, 28, 30, 37, 26,
     10, 16, 18, 25, 28, 4, 13, 3, 38, 20, 20, 14, 29, 38, 17, 1, 32, 34, 4,
     29, 16, 18, 21, 17, 32, 28, 36, 3, 30, 14, 39, 12, 32, 27, 9, 36, 5, 39,
     1, 18, 29, 17, 26, 21, 24, 34, 11, 24, 13, 24, 9, 26, 39, 33, 3, 11, 8, 1,
     13, 32, 18, 29, 28, 13, 38, 3, 31, 24, 26, 16, 4, 7, 20, 5, 37, 22, 33,
     39, 34, 38, 40, 41, 35, 31, 5, 27, 0, 16, 15, 14, 0, 18, 23, 3, 26, 39,
     38, 24, 31, 28, 10, 17, 28, 10, 17, 21, 36, 38, 1, 2, 24, 23, 14, 11, 25,
     9, 17, 17, 10, 34, 41, 22, 40, 26, 29, 8, 28, 6, 40, 8, 8, 20, 11, 8, 28,
     41, 39, 6, 31, 18, 11, 29, 15, 13, 26, 1, 20, 6, 5, 5, 29, 40, 11, 13, 17,
     16, 1, 6, 11, 25, 18, 4, 16, 17, 30, 37, 20, 10, 38, 34, 39, 39, 33, 29,
     40, 0, 19, 39, 31, 14, 26, 15, 27, 19, 6, 11, 15, 21, 27, 15, 17, 35, 24,
     37, 8, 31, 34, 40, 34, 24, 23, 19, 20, 27, 25, 15, 41, 15, 24, 1, 32, 36,
     21, 13, 13, 20, 36, 25, 26, 17, 21, 7, 28, 15, 29, 16, 14, 4, 34, 29, 17,
     19, 29, 5, 1, 39, 1, 1, 24, 5, 27, 9, 41, 29, 5, 9, 19, 36, 40, 38, 18,
     14, 40, 0, 3, 32, 23, 13, 6, 29, 18, 12, 39, 9, 38, 40, 21, 29, 14, 31, 1,
     25, 34, 33, 11, 20, 6, 28, 30, 9, 11, 9, 15, 20, 2, 17, 19, 6, 27, 31, 14,
     7, 15, 26, 2, 38, 27, 29, 14, 33, 2, 15, 19, 18, 40, 15, 0, 5, 23, 36, 4,
     39, 10, 36, 7, 40, 28, 20, 14, 36, 4, 31, 30, 38, 0, 4, 13, 6, 16, 34, 7,
     17, 41, 38, 9, 15, 24, 37, 30, 30, 23, 14, 36, 15, 19, 33, 34, 28, 7, 11,
     8, 34, 23, 8, 9, 41, 36, 4, 19, 39, 12, 38, 25, 29, 7, 21, 30, 21, 18, 16,
     1, 11, 40, 22, 17, 24, 24, 27, 24, 34, 37, 29, 0, 22, 0, 3, 26, 28, 21,
     26, 35, 30, 0, 26, 39, 7, 12, 8, 18, 12, 2, 41, 3, 37, 17, 37, 12, 15, 5,
     8, 18, 18, 24, 41, 21, 16, 17, 36, 31, 24, 30, 11, 4, 20, 5, 17, 4, 7, 14,
     13, 14, 34, 18, 41, 28, 26, 34, 10, 19, 13, 13, 10, 19, 18, 1, 41, 5, 37,
     1, 23, 20, 19, 39, 10, 39, 10, 0, 33, 14, 23, 39, 14, 34, 7, 18, 33, 15,
     17, 18, 6, 37, 24, 14, 18, 21, 36, 4, 35, 33, 20, 1, 16, 20, 30, 12, 37,
     29, 39, 2, 0, 1, 33, 10, 39, 7, 15, 20, 31, 20, 24, 31, 6, 5, 15, 3, 26,
     19, 24, 28, 3, 0, 3, 4, 23, 21, 36, 24, 34, 2, 9, 26, 39, 38, 35, 38, 34,
     41, 13, 34, 20, 13, 30, 36, 27, 4, 16, 8, 3, 18, 20, 31, 13, 22, 8, 7, 34,
     18, 36, 6, 32, 40, 27, 30, 31, 30, 22, 7, 26, 31, 35, 38, 37, 31, 20, 24,
     39, 27, 41, 32, 14, 1, 17, 34, 10, 15, 24, 41, 26, 38, 39, 30, 9, 27, 19,
     11, 29, 13, 15, 3, 29, 27, 26, 36, 29, 0, 23, 9, 4, 1, 15, 12, 13, 5, 14,
     14, 8, 5, 23, 32, 39, 38, 35, 22, 34, 33, 21, 12, 28, 1, 36, 10, 14, 27,
     38, 39, 16, 0, 25, 17, 29, 11, 36, 16, 37, 23, 19, 7, 11, 6, 17, 40, 38,
     40, 27, 11, 23, 13, 39, 12, 32, 18, 21, 29, 37, 8, 10, 20, 21, 10, 38, 33,
     35, 11, 7, 10, 37, 3, 18, 19, 35, 15, 4, 7, 38, 4, 1, 12, 32, 21, 38, 9,
     17, 35, 30, 21, 26, 8, 0, 14, 29, 16, 37, 33, 16, 1, 8, 38, 4, 13, 40, 36,
     0, 6, 30, 3, 41, 33, 41, 5, 15, 19, 2, 37, 17, 19, 27, 5, 36, 27, 31, 29,
     26, 39, 24, 34, 6, 25, 15, 28, 27, 5, 19, 20, 36, 34, 26, 16, 29, 14, 20,
     40, 19, 31, 20, 2, 13, 24, 23, 30, 14, 11, 0, 23, 12, 25, 13, 10, 17, 27,
     2, 0, 11, 22, 32, 40, 32, 11, 33, 39, 33, 26, 25, 32, 40, 31, 9, 9, 36,
     41, 34, 22, 7, 17, 3, 39, 9, 9, 2, 21, 4, 25, 32, 0, 40, 38, 34, 29, 1, 6,
     28, 17, 14, 8, 35, 41, 10, 11, 21, 17, 25, 15, 21, 11, 40, 4, 7, 17, 2,
     16, 25, 8, 22, 12, 15, 41, 20, 7, 8, 1, 38, 13, 31, 8, 37, 12, 19, 17, 23,
     3, 24, 6, 18, 9, 11, 19, 30, 38, 30, 6, 37, 30, 34, 37, 23, 38, 29, 12, 7,
     29, 3, 32, 6, 33, 19, 28, 23, 41, 36, 15, 11, 26, 7, 0, 28, 2, 32, 7, 35,
     25, 28, 38, 21, 24, 35, 25, 5, 15, 29, 25, 27, 39, 19, 2, 23, 18, 38, 0,
     6, 41, 32, 9, 0, 39, 33, 5, 27, 19, 24, 41, 25, 10, 10, 36, 18, 14, 23,
     15, 18, 21, 14, 26, 13, 28, 33, 6, 0, 26, 17, 20, 25, 20, 38, 14, 18, 26,
     13, 38, 37, 27, 39, 8, 28, 4, 19, 9, 7, 16, 13, 0, 26, 35, 12, 0, 0, 30,
     0, 4, 39, 23, 10, 7, 28, 41, 16, 9, 4, 14, 35, 23, 23, 39, 31, 10, 17, 5,
     10, 17, 13, 11, 20, 2, 17, 14, 2, 24, 21, 27, 7, 26, 6, 39, 27, 10, 27,
     33, 11, 6, 16, 22, 23, 41, 37, 37, 36, 41, 35, 33, 40, 40, 40, 25, 39, 5,
     35, 16, 29, 25, 18, 27, 27, 35, 0, 0, 13, 0, 33, 32, 5, 16, 39, 41, 4, 32,
     40, 41, 41, 22, 5, 36, 15, 0, 26, 35, 35, 2, 32, 29, 10, 37, 39, 1, 19,
     36, 0, 6, 34, 19, 37, 14, 20, 17, 31, 23, 11, 22, 8, 22, 10, 5, 10, 18,
     12, 40, 1, 2, 27, 34, 37, 4, 31, 19, 8, 5, 5, 5, 26, 39, 9, 41, 22, 14,
     28, 21, 10, 23, 34, 32, 21, 0, 37, 8, 31, 5, 16, 40, 8, 1, 23, 40, 17, 27,
     24, 26, 33, 32, 8, 28, 7, 32, 7, 17, 32, 4, 10, 27, 2, 17, 41, 40, 7, 34,
     13, 33, 7, 35, 33, 33, 31, 25, 24, 27, 18, 0, 0, 41, 8, 40, 8, 2, 25, 41,
     22, 14, 28, 37, 14, 19, 9, 17, 15, 31, 21, 18, 21, 39, 3, 29, 22, 29, 41,
     17, 16, 8, 35, 39, 28, 5, 29, 0, 0, 33, 9, 39, 36, 11, 13, 6, 1, 22, 10,
     21, 34, 12, 27, 23, 32, 22, 35, 12, 27, 7, 0, 29, 36, 3, 17, 21, 27, 17,
     2, 41, 31, 7, 38, 12, 6, 34, 24, 11, 10, 11, 18, 28, 40, 29, 26, 18, 34,
     12, 26, 27, 5, 34, 35, 37, 27, 37, 12, 20, 1, 17, 14, 5, 37, 38, 5, 13,
     36, 35, 1, 27, 40, 22, 29, 36, 13, 21, 33, 15, 6, 15, 16, 0, 6, 29, 19, 9,
     14, 3, 0, 2, 26, 31, 16, 28, 28, 24, 34, 3, 27, 36, 16, 0, 12, 36, 12, 1,
     23, 28, 38, 7, 34, 23, 40, 6, 20, 29, 1, 37, 26, 10, 27, 40, 1, 14, 31,
     15, 41, 9, 38, 39, 13, 16, 36, 1, 38, 34, 36, 9, 29, 9, 9, 6, 8, 10, 27,
     10, 2, 6, 33, 30, 2, 10, 11, 31, 9, 35, 2, 26, 24, 23, 41, 11, 20, 11, 41,
     20, 7, 15, 3, 8, 14, 38, 8, 27, 1, 41, 5, 15, 2, 34, 21, 10, 10, 7, 1, 37,
     30, 4, 39, 0, 12, 39, 4, 30, 9, 1, 18, 14, 19, 29, 28, 36, 9, 13, 33, 36,
     1, 10, 27, 29, 7, 16, 12, 0, 26, 18, 27, 9, 3, 32, 13, 20, 13, 30, 38, 27,
     38, 13, 11, 12, 12, 26, 26, 36, 10, 2, 0, 40, 9, 5, 6, 40, 39, 16, 31, 6,
     39, 28, 15, 5, 35, 34, 0, 30, 28, 37, 39, 38, 1, 37, 23, 1, 36, 4, 27, 19,
     9, 21, 2, 12, 35, 23, 23, 39, 31, 39, 2, 28, 12, 14, 41, 26, 31, 28, 40,
     10, 18, 26, 2, 18, 34, 15, 24, 12, 19, 25, 5, 33, 31, 25, 16, 20, 8, 30,
     2, 22, 29, 5, 13, 12, 40, 14, 24, 7, 40, 28, 20, 7, 9, 9, 6, 25, 1, 30, 7,
     15, 3, 27, 37, 3, 26, 19, 35, 39, 29, 4, 40, 24, 14, 11, 39, 20, 24, 17,
     26, 36, 10, 16, 9, 7, 33, 8, 19, 15, 34, 38, 40, 6, 0, 20, 39, 5, 26, 26,
     22, 2, 24, 26, 17, 19, 39, 26, 6, 38, 35, 39, 22, 19, 23, 22, 29, 18, 3,
     23, 8, 26, 21, 24, 32, 25, 19, 30, 24, 4, 5, 15, 34, 31, 2, 19, 18, 31, 3,
     24, 15, 6, 0, 31, 0, 5, 2, 28, 41, 23, 23, 15, 24, 9, 18, 27, 40, 39, 8,
     37, 12, 26, 34, 21, 37, 10, 28, 26, 40, 40, 31, 13, 31, 18, 1, 23, 4, 40,
     27, 37, 26, 14, 8, 31, 6, 25, 11, 31, 26, 23, 20, 18, 13, 4, 31, 13, 25,
     26, 30, 28, 39, 16, 13, 36, 30, 14, 39, 12, 22, 29, 5, 21, 8, 29, 0, 7,
     10, 0, 25, 17, 7, 6, 31, 24, 25, 13, 33, 16, 21, 15, 0, 11, 31, 3, 21, 23,
     4, 6, 29, 4, 1, 19, 31, 26, 24, 29, 34, 6, 40, 31, 21, 18, 22, 28, 18, 14,
     20, 9, 7, 41, 10, 2, 32, 22, 10, 35, 2, 25, 40, 26, 2, 28, 18, 15, 4, 35,
     19, 7, 34, 38, 20, 36, 13, 37, 32, 29, 1, 13, 35, 29, 41, 19, 19, 38, 24,
     27, 33, 37, 18, 22, 4, 30, 19, 4, 22, 9, 40, 13, 39, 3, 5, 7, 30, 22, 7,
     2, 28, 37, 0, 34, 11, 7, 16, 13, 38, 33, 13, 34, 5, 35, 11, 9, 10, 16, 10,
     38, 15, 16, 34, 15, 22, 10, 32, 2, 8, 31, 8, 40, 37, 6, 32, 1, 13, 34, 40,
     17, 27, 26, 38, 30, 3, 7, 2, 12, 24, 3, 16, 21, 33, 26, 6, 36, 14, 23, 0,
     31, 41, 10, 35, 13, 37, 17, 35, 11, 39, 36, 37, 41, 7, 37, 22, 17, 23, 38,
     33, 34, 8, 32, 21, 37, 20, 21, 40, 6, 35, 25, 37, 7, 1, 20, 16, 20, 34,
     20, 24, 6, 7, 26, 28, 3, 14, 32, 23, 0, 16, 11, 29, 3, 11, 24, 22, 4, 17,
     25, 17, 11, 39, 26, 14, 18, 15, 7, 18, 31, 2, 20, 37, 36, 9, 5, 6, 36, 13,
     41, 38, 2, 1, 14, 7, 1, 23, 24, 29, 30, 19, 10, 5, 24, 17, 37, 28, 22, 39,
     6, 20, 39, 18, 6, 37, 19, 20, 29, 7, 19, 34, 22, 33, 29, 17, 37, 30, 12,
     4, 34, 29, 0, 33, 5, 38, 17, 37, 11, 13, 26, 35, 13, 4, 18, 17, 35, 0, 16,
     26, 0, 24, 41, 4, 12, 14, 30, 33, 33, 1, 4, 39, 0, 14, 31, 8, 4, 31, 21,
     5, 15, 40, 12, 11, 27, 24, 35, 33, 15, 26, 23, 30, 19, 28, 4, 6, 16, 3,
     13, 30, 22, 8, 38, 32, 23, 25, 8, 38, 10, 24, 26, 39, 39, 2, 26, 13, 26,
     2, 19, 15, 34, 6, 36, 4, 31, 11, 34, 2, 2, 7, 2, 37, 19, 33, 5, 6, 19, 23,
     12, 37, 16, 3, 6, 2, 34, 32, 39, 33, 14, 10, 19, 35, 12, 9, 7, 39, 36, 17,
     9, 4, 7, 4, 27, 16, 8, 22, 21, 16, 18, 0, 15, 8, 15, 5, 14, 11, 14, 13,
     10, 0, 18, 11, 20, 32, 18, 36, 32, 27, 41, 37, 39, 41, 27, 32, 4, 14, 41,
     10, 0, 0, 5, 3, 14, 31, 31, 19, 15, 41, 35, 41, 20, 31, 22, 3, 18, 2, 35,
     1, 33, 33, 4, 8, 34, 18, 14, 2, 31, 32, 13, 25, 7, 5, 23, 38, 11, 40, 8,
     25, 31, 29, 40, 2, 18, 31, 39, 20, 24, 5, 17, 4, 36, 11, 29, 12, 20, 34,
     18, 27, 28, 40, 3, 32, 33, 31, 17, 12, 40, 19, 12, 36, 10, 32, 33, 27, 33,
     35, 22, 33, 32, 15, 11, 3, 9, 14, 36, 14, 2, 28, 34, 8, 11, 33, 15, 6, 20,
     7, 33, 15, 4, 26, 26, 8, 12, 5, 37, 24, 22, 36, 22, 19, 2, 34, 8, 17, 5,
     24, 14, 32, 17, 10, 9, 25, 22, 15, 12, 13, 18, 26, 24, 38, 22, 8, 13, 19,
     7, 33, 15, 38, 6, 41, 16, 2, 19, 0, 4, 36, 26, 23, 25, 16, 12, 33, 20, 5,
     37, 30, 22, 0, 5, 6, 4, 9, 14, 25, 39, 1, 0, 26, 37, 12, 14, 38, 36, 38,
     8, 9, 8, 23, 20, 1, 3, 22, 31, 34, 26, 32, 9, 10, 34, 1, 21, 36, 40, 39,
     2, 22, 37, 37, 6, 21, 41, 34, 14, 20, 11, 41, 24, 41, 25, 39, 7, 28, 13,
     2, 11, 17, 13, 19, 27, 1, 33, 18, 17, 9, 3, 30, 40, 29, 38, 20, 24, 12,
     33, 0, 23, 25, 39, 17, 28, 29, 28, 17, 34, 16, 21, 40, 3, 14, 30, 40, 8,
     29, 31, 36, 13, 10, 5, 13, 20, 3, 12, 21, 12, 16, 12, 9, 6, 6, 28, 41, 36,
     19, 11, 26, 21, 33, 30, 10, 26, 33, 15, 12, 21, 21, 31, 18, 9, 38, 7, 41,
     18, 16, 30, 19, 17, 12, 18, 21, 28, 37, 36, 36, 13, 0, 22, 39, 6, 0, 31,
     36, 16, 39, 14, 38, 22, 15, 26, 12, 4, 26, 24, 11, 19, 26, 8, 13, 8, 13,
     1, 18, 26, 15, 40, 25, 33, 10, 0, 29, 0, 30, 37, 24, 37, 36, 28, 28, 3,
     28, 39, 20, 41, 25, 4, 21, 31, 24, 17, 20, 3, 30, 26, 8, 24, 5, 27, 9, 4,
     9, 19, 38, 13, 38, 6, 29, 7, 8, 20, 21, 3, 10, 37, 41, 32, 40, 11, 14, 21,
     15, 32, 6, 32, 40, 19, 27, 30, 8, 18, 12, 7, 39, 40, 35, 19, 12, 38, 23,
     39, 13, 2, 5, 23, 1, 15, 8, 35, 40, 1, 10, 6, 31, 28, 20, 25, 19, 9, 19,
     38, 15, 18, 32, 26, 20, 39, 5, 25, 0, 34, 37, 8, 18, 37, 3, 14, 36, 35, 4,
     30, 37, 13, 38, 7, 37, 7, 36, 33, 33, 36, 37, 30, 6, 9, 0, 24, 18, 8, 24,
     33, 41, 24, 14, 17, 3, 40, 39, 18, 17, 27, 6, 25, 0, 12, 38, 10, 7, 33,
     35, 10, 10, 41, 20, 39, 38, 2, 23, 23, 4, 25, 9, 11, 12, 13, 9, 39, 36,
     26, 35, 38, 34, 29, 11, 13, 33, 2, 10, 39, 31, 16, 5, 10, 15, 39, 33, 23,
     33, 33, 40, 39, 38, 3, 33, 6, 1, 16, 5, 20, 17, 11, 3, 26, 1, 38, 1, 9,
     35, 27, 14, 23, 20, 6, 9, 16, 29, 37, 18, 16, 27, 26, 17, 40, 3, 17, 19,
     15, 23, 34, 35, 3, 24, 9, 25, 34, 37, 20, 19, 19, 38, 4, 8, 40, 9, 35, 16,
     40, 18, 27, 25, 0, 18, 26, 33, 13, 28, 13, 15, 28, 33, 4, 11, 13, 17, 19,
     5, 32, 2, 25, 3, 2, 17, 20, 14, 3, 2, 0, 30, 18, 16, 40, 26, 1, 33, 24,
     34, 6, 41, 30, 35, 35, 5, 7, 25, 29, 3, 38, 20, 25, 16, 6, 16, 32, 3, 15,
     34, 41, 17, 0, 8, 30, 30, 26, 17, 7, 27, 33, 25, 9, 28, 20, 22, 19, 16, 3,
     24, 21, 12, 18, 23, 8, 19, 37, 40, 21, 5, 15, 15, 26, 8, 33, 9, 20, 16, 4,
     37, 29, 24, 27, 6, 23, 14, 29, 34, 31, 36, 14, 6, 21, 26, 25, 2, 31, 35,
     10, 16, 16, 25, 35, 36, 15, 21, 14, 13, 5, 29, 36, 11, 17, 30, 31, 10, 28,
     15, 4, 17, 20, 10, 13, 11, 1, 41, 12, 39, 6, 31, 6, 18, 35, 16, 39, 5, 25,
     0, 23, 15, 21, 11, 1, 18, 25, 21, 40, 29, 30, 41, 8, 25, 21, 38, 9, 15,
     20, 2, 40, 34, 40, 34, 7, 18, 7, 34, 23, 33, 16, 16, 3, 17, 29, 39, 17,
     16, 26, 16, 39, 27, 25, 15, 30, 34, 35, 26, 17, 9, 33, 12, 12, 11, 3, 24,
     14, 13, 24, 37, 35, 29, 17, 23, 40, 36, 9, 32, 30, 10, 32, 37, 12, 35, 9,
     33, 20, 7, 26, 5, 14, 14, 20, 9, 32, 29, 18, 11, 27, 27, 7, 34, 10, 24,
     12, 6, 14, 29, 21, 25, 9, 13, 25, 41, 40, 33, 22, 27, 30, 31, 23, 29, 35,
     41, 39, 31, 17, 16, 30, 4, 41, 7, 23, 37, 12, 32, 1, 31, 23, 19, 38, 18,
     35, 0, 32, 6, 13, 1, 30, 4, 19, 23, 32, 32, 6, 35, 4, 39, 37, 12, 13, 31,
     6, 20, 9, 14, 21, 1, 21, 35, 12, 29, 7, 27, 13, 6, 26, 35, 15, 29, 10, 1,
     27, 11, 18, 14, 32, 27, 15, 4, 24, 38, 30, 11, 31, 9, 23, 32, 27, 16, 34,
     40, 11, 26, 40, 0, 21, 35, 10, 12, 11, 37, 12, 32, 12, 37, 34, 34, 4, 26,
     0, 13, 17, 0, 24, 39, 17, 0, 24, 39, 15, 27, 22, 36, 13, 32, 38, 13, 10,
     11, 7, 8, 16, 18, 9, 3, 27, 34, 41, 38, 37, 5, 10, 3, 13, 38, 1, 9, 39, 8,
     11, 12, 10, 5, 1, 10, 15, 5, 16, 28, 15, 9, 13, 9, 27, 3, 10, 39, 41, 22,
     25, 20, 15, 17, 1, 1, 21, 39, 33, 4, 34, 1, 1, 19, 1, 27, 0, 2, 21, 22,
     27, 13, 30, 3, 3, 0, 1, 25, 32, 24, 22, 15, 25, 10, 2, 4, 32, 2, 24, 0, 5,
     40, 3, 39, 1, 22, 4, 14, 17, 8, 22, 16, 2, 18, 32, 15, 7, 39, 17, 15, 32,
     1, 0, 34, 32, 18, 22, 36, 9, 37, 27, 25, 24, 6, 38, 0, 21, 22, 16, 9, 30,
     18, 7, 27, 14, 10, 34, 24, 0, 2, 30, 15, 6, 39, 22, 26, 34, 33, 1, 24, 19,
     24, 29, 8, 19, 31, 20, 30, 36, 21, 35, 13, 33, 34, 12, 16, 34, 30, 28, 33,
     29, 22, 19, 8, 37, 11, 35, 36, 24, 38, 35, 22, 40, 38, 7, 24, 26, 22, 18,
     6, 40, 21, 28, 37, 24, 9, 16, 9, 7, 11, 38, 17, 7, 15, 38, 25, 10, 36, 27,
     4, 41, 11, 8, 11, 16, 30, 6, 28, 5, 13, 29, 33, 15, 7, 16, 3, 4, 5, 28,
     20, 39, 40, 35, 23, 15, 3, 1, 2, 35, 20, 27, 36, 2, 15, 28, 7, 19, 14, 16,
     14, 35, 8, 28, 16, 38, 2, 5, 35, 34, 40, 11, 4, 28, 25, 35, 18, 14, 21,
     16, 11, 9, 11, 32, 41, 40, 11, 11, 38, 35, 12, 38, 14, 18, 3, 2, 16, 16,
     25, 32, 40, 21, 1, 33, 26, 38, 0, 22, 9, 15, 22, 18, 30, 41, 12, 17, 18,
     31, 17, 25, 9, 22, 22, 16, 35, 38, 0, 36, 32, 38, 12, 28, 11, 39, 7, 23,
     38, 19, 36, 41, 27, 5, 8, 32, 4, 19, 20, 32, 17, 41, 32, 18, 8, 34, 17, 4,
     21, 10, 20, 35, 15, 21, 19, 15, 40, 0, 31, 3, 37, 4, 11, 19, 19, 18, 14,
     33, 19, 7, 30, 22, 16, 6, 9, 4, 37, 38, 18, 1, 35, 6, 33, 25, 18, 5, 23,
     19, 32, 7, 3, 38, 34, 20, 31, 7, 31, 37, 32, 34, 34, 33, 16, 27, 27, 37,
     14, 11, 39, 36, 28, 27, 18, 40, 20, 30, 3, 0, 17, 13, 37, 3, 38, 35, 36,
     2, 23, 5, 17, 34, 18, 13, 10, 37, 1, 33, 38, 24, 10, 33, 8, 22, 13, 1, 12,
     31, 41, 30, 38, 19, 9, 28, 1, 15, 12, 5, 17, 40, 9, 13, 9, 38, 25, 12, 41,
     21, 25, 16, 28, 17, 16, 1, 27, 16, 0, 0, 2, 18, 25, 2, 39, 40, 13, 16, 25,
     27, 32, 27, 17, 37, 8, 7, 12, 31, 36, 6, 28, 21, 41, 28, 35, 20, 25, 13,
     10, 40, 23, 30, 20, 5, 29, 1, 9, 3, 2, 2, 15, 24, 11, 13, 37, 17, 32, 27,
     4, 4, 30, 13, 12, 12, 40, 2, 2, 19, 10, 22, 28, 25, 6, 6, 1, 25, 19, 12,
     14, 10, 5, 13, 11, 15, 37, 9, 19, 9, 38, 3, 27, 41, 35, 12, 15, 20, 8, 41,
     17, 25, 37, 3, 33, 32, 36, 16, 39, 15, 31, 33, 21, 7, 24, 29, 14, 35, 4,
     4, 39, 13, 21, 22, 21, 5, 6, 23, 37, 32, 5, 39, 40, 10, 35, 13, 25, 32,
     18, 1, 19, 20, 35, 1, 12, 0, 40, 40, 26, 8, 7, 34, 14, 18, 33, 24, 27, 1,
     3, 35, 20, 36, 25, 41, 21, 21, 40, 39, 40, 15, 23, 30, 13, 1, 23, 27, 22,
     40, 5, 12, 12, 23, 4, 10, 26, 21, 30, 19, 0, 14, 31, 6, 21, 3, 4, 13, 25,
     41, 21, 36, 29, 41, 26, 2, 38, 13, 11, 39, 18, 26, 15, 25, 31, 37, 10, 10,
     1, 35, 17, 38, 2, 38, 17, 2, 35, 21, 17, 31, 36, 35, 38, 39, 23, 30, 26,
     8, 32, 9, 37, 38, 5, 8, 3, 0, 5, 40, 7, 37, 0, 30, 22, 0, 15, 29, 40, 7,
     18, 8, 5, 22, 35, 30, 23, 24, 40, 17, 30, 28, 35, 5, 37, 34, 26, 31, 6, 3,
     3, 12, 5, 18, 25, 25, 1, 12, 9, 40, 25, 2, 34, 21, 3, 28, 26, 11, 27, 27,
     15, 0, 24, 37, 10, 36, 15, 4, 11, 3, 26, 28, 32, 18, 25, 28, 3, 5, 33, 13,
     19, 14, 32, 26, 4, 7, 10, 35, 10, 16, 16, 7, 31, 34, 13, 23, 5, 35, 22, 9,
     13, 31, 27, 38, 33, 14, 11, 5, 20, 35, 8, 18, 5, 29, 13, 28, 3, 32, 18,
     28, 0, 39, 40, 12, 12, 30, 28, 37, 7, 22, 15, 35, 2, 31, 14, 37, 31, 31,
     4, 10, 24, 39, 10, 34, 23, 24, 19, 23, 4, 0, 23, 29, 33, 8, 7, 10, 12, 7,
     25, 31, 15, 1, 32, 17, 5, 38, 4, 39, 31, 41, 9, 0, 8, 32, 6, 34, 20, 12,
     36, 27, 8, 0, 19, 2, 39, 40, 33, 4, 27, 17, 35, 41, 36, 41, 27, 33, 5, 35,
     21, 41, 20, 17, 22, 8, 36, 12, 27, 0, 27, 19, 21, 7, 22, 26, 17, 31, 19,
     29, 28, 22, 3, 9, 36, 38, 38, 4, 30, 34, 22, 15, 38, 19, 1, 17, 13, 20, 7,
     22, 17, 21, 7, 28, 30, 39, 35, 15, 7, 30, 38, 29, 20, 39, 39, 1, 40, 17,
     27, 12, 23, 41, 12, 6, 33, 26, 22, 8, 41, 22, 27, 26, 14, 27, 30, 13, 13,
     22, 13, 36, 17, 22, 14, 9, 13, 40, 34, 22, 20, 9, 7, 27, 13, 11, 13, 21,
     18, 4, 25, 38, 8, 19, 0, 34, 26, 34, 23, 16, 26, 24, 5, 29, 28, 0, 35, 35,
     6, 37, 10, 25, 1, 9, 17, 19, 32, 37, 40, 1, 12, 36, 2, 21, 29, 37, 32, 26,
     12, 13, 14, 0, 37, 32, 2, 10, 13, 18, 26, 4, 7, 26, 18, 7, 10, 9, 7, 12,
     23, 17, 38, 23, 30, 35, 15, 3, 28, 31, 26, 38, 1, 20, 5, 36, 26, 40, 37,
     25, 28, 0, 23, 37, 25, 11, 7, 35, 1, 3, 11, 23, 22, 40, 11, 17, 16, 11, 3,
     40, 18, 4, 17, 23, 9, 2, 1, 30, 16, 3, 41, 1, 35, 33, 8, 19, 18, 40, 18,
     35 >>

\* random.seed(3)
RandomSeed3 ==
  << 9, 22, 15, 25, 26, 2, 0, 35, 10, 9, 41, 19, 35, 20, 26, 6, 26, 36, 21, 31,
     28, 2, 31, 24, 12, 1, 36, 19, 30, 36, 29, 38, 16, 33, 18, 39, 36, 4, 5, 9,
     40, 18, 26, 12, 21, 16, 14, 24, 24, 37, 28, 39, 35, 41, 28, 6, 36, 40, 37,
     23, 29, 8, 34, 24, 11, 2, 35, 41, 3, 33, 17, 6, 12, 32, 36, 1, 25, 1, 30,
     13, 36, 41, 21, 41, 13, 3, 25, 1, 8, 17, 25, 6, 1, 36, 13, 40, 37, 15, 19,
     21, 27, 25, 23, 26, 39, 21, 18, 30, 9, 12, 41, 21, 23, 0, 17, 24, 0, 25,
     26, 2, 26, 19, 28, 14, 29, 30, 0, 2, 28, 40, 10, 19, 24, 13, 15, 13, 15,
     25, 12, 15, 32, 1, 23, 30, 13, 9, 33, 10, 7, 18, 29, 4, 13, 14, 35, 18,
     35, 7, 14, 27, 37, 18, 9, 5, 22, 8, 33, 35, 7, 11, 33, 26, 33, 14, 5, 12,
     33, 11, 14, 17, 17, 17, 38, 6, 0, 39, 36, 41, 18, 39, 38, 9, 31, 35, 27,
     21, 12, 14, 9, 2, 24, 12, 34, 1, 37, 29, 38, 37, 37, 24, 0, 31, 7, 12, 27,
     22, 17, 39, 25, 14, 10, 36, 20, 32, 14, 8, 22, 34, 7, 33, 38, 33, 34, 0,
     26, 36, 2, 11, 11, 22, 17, 19, 32, 0, 2, 5, 5, 2, 40, 35, 3, 21, 13, 13,
     14, 27, 24, 15, 8, 13, 5, 23, 30, 15, 3, 7, 15, 25, 32, 15, 33, 26, 18,
     15, 20, 29, 17, 29, 19, 10, 22, 29, 3, 17, 17, 36, 39, 15, 37, 33, 11, 19,
     5, 34, 27, 37, 33, 28, 30, 23, 4, 24, 0, 6, 32, 1, 3, 4, 36, 7, 0, 35, 5,
     35, 28, 35, 40, 24, 33, 1, 32, 21, 30, 4, 31, 39, 2, 13, 23, 34, 10, 7,
     10, 25, 31, 16, 15, 16, 14, 17, 3, 21, 40, 17, 31, 6, 29, 31, 28, 21, 20,
     27, 37, 6, 4, 31, 38, 21, 18, 30, 7, 11, 8, 24, 13, 9, 29, 40, 12, 29, 17,
     35, 24, 11, 9, 0, 20, 16, 7, 15, 13, 32, 6, 41, 20, 25, 19, 35, 34, 23,
     20, 30, 35, 16, 30, 40, 19, 9, 9, 30, 28, 40, 35, 10, 7, 10, 7, 29, 36,
     37, 10, 36, 13, 17, 30, 3, 3, 35, 12, 14, 24, 28, 0, 14, 18, 20, 8, 24,
     40, 16, 22, 5, 11, 27, 4, 37, 38, 4, 39, 15, 32, 31, 12, 28, 27, 33, 11,
     31, 40, 28, 22, 4, 20, 14, 30, 28, 23, 7, 27, 26, 7, 37, 27, 5, 39, 5, 13,
     30, 25, 23, 27, 19, 13, 7, 2, 30, 31, 22, 31, 15, 11, 16, 36, 1, 21, 10,
     32, 14, 13, 16, 22, 32, 14, 35, 4, 11, 4, 4, 32, 30, 7, 7, 17, 31, 34, 31,
     24, 6, 16, 8, 22, 23, 8, 10, 32, 1, 33, 37, 39, 16, 23, 24, 26, 41, 28,
     12, 36, 20, 25, 30, 0, 32, 27, 20, 21, 19, 8, 22, 1, 21, 27, 18, 23, 40,
     37, 5, 33, 26, 2, 15, 9, 3, 22, 39, 13, 36, 29, 5, 36, 25, 38, 30, 31, 14,
     33, 39, 36, 18, 31, 20, 4, 1, 3, 8, 6, 20, 29, 22, 17, 27, 12, 19, 31, 16,
     7, 37, 30, 15, 15, 22, 25, 9, 0, 8, 32, 6, 19, 8, 8, 7, 16, 7, 1, 4, 7,
     20, 2, 0, 18, 17, 29, 2, 16, 16, 1, 40, 9, 3, 19, 6, 26, 14, 5, 2, 30, 11,
     33, 19, 39, 12, 10, 11, 34, 26, 14, 3, 28, 40, 24, 0, 1, 3, 7, 1, 2, 27,
     37, 8, 40, 20, 33, 38, 39, 1, 12, 25, 39, 3, 12, 35, 4, 16, 14, 28, 38, 7,
     31, 30, 35, 23, 38, 15, 17, 9, 32, 20, 11, 7, 30, 25, 29, 16, 20, 6, 29,
     0, 19, 31, 28, 4, 9, 35, 26, 36, 36, 18, 37, 30, 14, 15, 3, 16, 40, 4, 23,
     4, 3, 27, 10, 2, 6, 27, 24, 0, 9, 40, 9, 23, 17, 32, 25, 33, 22, 7, 7, 3,
     34, 4, 1, 40, 8, 37, 3, 19, 9, 34, 25, 26, 31, 36, 14, 25, 18, 4, 35, 24,
     34, 8, 22, 19, 30, 3, 14, 20, 3, 23, 30, 17, 27, 25, 8, 14, 41, 14, 18, 3,
     9, 6, 39, 30, 36, 41, 25, 39, 22, 17, 39, 37, 39, 20, 32, 17, 41, 38, 12,
     39, 7, 4, 30, 12, 21, 26, 1, 31, 11, 18, 14, 31, 31, 12, 4, 12, 17, 3, 6,
     32, 29, 41, 41, 36, 15, 6, 13, 19, 22, 22, 15, 35, 11, 19, 37, 33, 12, 10,
     33, 0, 5, 22, 22, 6, 2, 8, 32, 19, 41, 32, 41, 1, 7, 0, 18, 14, 2, 22, 3,
     13, 10, 33, 17, 10, 1, 18, 26, 28, 38, 33, 10, 5, 31, 33, 21, 34, 23, 11,
     7, 0, 27, 37, 38, 19, 27, 39, 34, 25, 17, 21, 7, 7, 28, 41, 22, 17, 14,
     19, 33, 19, 40, 6, 13, 21, 17, 35, 34, 39, 25, 1, 24, 23, 20, 11, 29, 38,
     4, 28, 15, 21, 37, 40, 27, 8, 38, 7, 16, 34, 13, 11, 39, 39, 13, 16, 11,
     5, 10, 41, 3, 9, 8, 3, 22, 31, 35, 26, 34, 0, 11, 40, 2, 11, 20, 11, 22,
     1, 9, 40, 6, 38, 7, 41, 28, 27, 5, 2, 31, 7, 7, 34, 36, 2, 40, 22, 16, 4,
     16, 41, 11, 5, 6, 5, 14, 38, 3, 8, 39, 41, 41, 10, 14, 39, 20, 29, 13, 0,
     14, 31, 32, 23, 19, 22, 18, 22, 34, 8, 24, 39, 35, 7, 40, 35, 7, 11, 8, 2,
     41, 17, 36, 4, 0, 36, 33, 41, 28, 22, 32, 3, 22, 18, 6, 25, 13, 21, 15,
     13, 15, 25, 41, 39, 36, 35, 12, 41, 11, 5, 21, 30, 14, 27, 11, 40, 19, 20,
     22, 36, 41, 22, 18, 25, 2, 17, 35, 32, 2, 35, 16, 41, 15, 9, 23, 37, 18,
     36, 29, 15, 12, 21, 16, 15, 27, 36, 24, 6, 9, 15, 25, 5, 3, 13, 11, 1, 22,
     38, 22, 30, 34, 35, 38, 18, 28, 5, 36, 15, 19, 37, 12, 7, 34, 25, 3, 1,
     14, 0, 34, 7, 11, 16, 21, 18, 26, 27, 18, 4, 41, 29, 3, 18, 31, 41, 2, 0,
     20, 17, 37, 34, 13, 17, 24, 37, 8, 16, 3, 26, 1, 39, 21, 24, 3, 9, 19, 36,
     22, 11, 41, 27, 22, 8, 12, 37, 5, 22, 26, 14, 32, 38, 36, 30, 8, 2, 18,
     13, 8, 36, 9, 34, 39, 5, 38, 16, 8, 7, 1, 20, 16, 35, 34, 2, 16, 16, 7,
     10, 11, 29, 14, 4, 9, 18, 23, 10, 29, 9, 28, 25, 7, 31, 16, 22, 25, 26,
     18, 2, 33, 36, 20, 24, 11, 37, 28, 9, 34, 41, 14, 41, 20, 7, 30, 14, 30,
     24, 4, 22, 35, 20, 22, 36, 18, 20, 24, 34, 8, 3, 31, 23, 12, 37, 37, 22,
     41, 35, 31, 12, 0, 28, 30, 14, 20, 23, 10, 29, 23, 16, 4, 23, 13, 30, 7,
     16, 8, 17, 24, 4, 2, 20, 8, 21, 7, 4, 22, 38, 36, 21, 16, 2, 11, 13, 39,
     4, 39, 20, 18, 11, 40, 7, 23, 21, 8, 9, 41, 33, 30, 37, 4, 29, 31, 9, 19,
     40, 13, 32, 6, 28, 11, 21, 15, 36, 31, 21, 28, 17, 33, 10, 22, 24, 16, 1,
     7, 26, 8, 31, 21, 40, 35, 30, 15, 1, 23, 31, 38, 8, 6, 41, 31, 20, 31, 6,
     22, 28, 25, 6, 5, 26, 37, 5, 0, 3, 32, 16, 19, 41, 25, 11, 29, 0, 11, 29,
     7, 1, 21, 13, 40, 4, 33, 16, 33, 18, 28, 13, 9, 19, 33, 14, 9, 17, 4, 13,
     24, 22, 25, 12, 1, 1, 14, 8, 23, 11, 32, 25, 27, 30, 21, 17, 12, 2, 33,
     21, 4, 38, 24, 26, 18, 5, 41, 7, 15, 41, 5, 20, 20, 10, 38, 17, 0, 19, 0,
     29, 36, 38, 2, 28, 12, 19, 12, 12, 5, 26, 3, 40, 1, 40, 8, 3, 31, 22, 32,
     21, 26, 3, 28, 21, 40, 0, 2, 28, 38, 17, 29, 23, 16, 19, 25, 1, 12, 30,
     10, 19, 10, 15, 27, 31, 40, 20, 8, 14, 2, 10, 24, 25, 10, 7, 4, 7, 21, 10,
     37, 23, 14, 18, 1, 30, 31, 15, 30, 11, 9, 9, 8, 25, 26, 30, 4, 32, 20, 15,
     21, 18, 8, 16, 27, 30, 38, 8, 37, 33, 29, 41, 5, 32, 37, 5, 24, 39, 12,
     35, 38, 18, 6, 9, 34, 17, 13, 18, 38, 10, 0, 39, 13, 16, 40, 11, 3, 37,
     10, 9, 39, 9, 37, 13, 12, 9, 22, 23, 16, 21, 12, 35, 39, 31, 34, 2, 10, 8,
     6, 40, 38, 38, 23, 4, 17, 2, 37, 11, 12, 39, 8, 38, 13, 27, 4, 37, 16, 14,
     27, 24, 10, 5, 24, 1, 36, 14, 7, 13, 4, 13, 22, 17, 14, 12, 20, 32, 18,
     32, 20, 5, 7, 35, 20, 16, 21, 35, 15, 15, 15, 0, 22, 20, 20, 18, 19, 30,
     7, 41, 4, 36, 7, 33, 10, 3, 22, 35, 35, 36, 41, 2, 15, 4, 31, 18, 31, 33,
     41, 28, 36, 23, 3, 37, 3, 3, 34, 11, 27, 1, 8, 30, 1, 21, 39, 9, 29, 31,
     26, 32, 29, 0, 8, 22, 40, 9, 24, 5, 35, 18, 21, 28, 5, 30, 33, 36, 11, 9,
     6, 37, 18, 16, 21, 29, 13, 14, 32, 32, 12, 3, 38, 30, 24, 16, 40, 18, 9,
     4, 14, 25, 15, 39, 27, 19, 27, 25, 25, 20, 21, 20, 34, 8, 32, 12, 35, 3,
     20, 18, 29, 8, 11, 5, 23, 24, 0, 7, 8, 40, 19, 23, 12, 27, 34, 28, 0, 18,
     20, 1, 33, 13, 12, 26, 24, 20, 36, 21, 14, 2, 23, 15, 22, 14, 0, 1, 6, 3,
     35, 24, 10, 29, 26, 2, 31, 9, 41, 5, 12, 10, 36, 34, 24, 6, 18, 29, 2, 38,
     35, 39, 29, 25, 40, 11, 12, 5, 7, 33, 3, 31, 16, 36, 31, 28, 35, 1, 11,
     15, 18, 28, 36, 31, 39, 29, 14, 21, 31, 34, 15, 14, 25, 9, 37, 0, 27, 20,
     8, 23, 19, 40, 37, 24, 36, 37, 6, 34, 35, 41, 31, 16, 8, 27, 8, 31, 24,
     34, 14, 12, 37, 27, 15, 23, 18, 27, 21, 11, 41, 37, 31, 11, 8, 30, 34, 27,
     8, 30, 21, 15, 24, 18, 27, 31, 41, 4, 23, 39, 27, 24, 35, 1, 33, 26, 24,
     13, 26, 5, 22, 10, 39, 33, 19, 31, 16, 21, 6, 36, 32, 31, 3, 34, 0, 23,
     20, 2, 17, 37, 26, 13, 34, 14, 37, 16, 3, 40, 2, 10, 32, 4, 22, 36, 24,
     14, 31, 34, 24, 26, 13, 17, 41, 40, 0, 8, 9, 33, 8, 7, 32, 7, 41, 19, 37,
     34, 8, 32, 17, 9, 1, 29, 23, 12, 34, 8, 18, 3, 14, 37, 21, 6, 9, 27, 11,
     37, 2, 36, 26, 34, 14, 2, 7, 26, 1, 4, 32, 36, 35, 35, 23, 36, 29, 23, 17,
     1, 3, 10, 19, 5, 40, 24, 31, 37, 9, 37, 40, 11, 5, 33, 37, 33, 17, 25, 4,
     9, 17, 31, 3, 38, 1, 40, 9, 34, 34, 40, 19, 29, 12, 34, 4, 37, 24, 2, 39,
     13, 2, 10, 1, 11, 29, 41, 26, 35, 34, 30, 16, 10, 6, 22, 8, 31, 13, 24,
     22, 26, 6, 10, 28, 8, 28, 40, 16, 40, 25, 39, 22, 31, 28, 8, 21, 24, 19,
     27, 38, 33, 34, 6, 29, 26, 39, 0, 7, 40, 15, 29, 24, 16, 18, 23, 41, 22,
     33, 12, 29, 25, 31, 36, 3, 40, 25, 10, 19, 4, 9, 35, 29, 36, 6, 4, 15, 20,
     29, 12, 30, 24, 12, 33, 3, 24, 7, 1, 20, 21, 25, 15, 39, 32, 6, 0, 40, 17,
     4, 7, 29, 7, 15, 28, 14, 27, 39, 33, 26, 26, 13, 26, 27, 24, 20, 31, 8,
     29, 41, 1, 10, 41, 3, 34, 24, 2, 26, 0, 35, 12, 38, 37, 5, 16, 6, 31, 4,
     3, 4, 36, 10, 13, 18, 23, 17, 39, 14, 19, 36, 10, 7, 35, 13, 37, 34, 15,
     13, 4, 36, 18, 14, 7, 9, 36, 5, 23, 26, 21, 21, 16, 8, 34, 37, 23, 10, 38,
     8, 7, 26, 34, 24, 4, 41, 6, 14, 41, 33, 31, 3, 35, 16, 0, 33, 39, 1, 19,
     37, 13, 12, 32, 18, 41, 35, 36, 29, 8, 28, 24, 20, 23, 12, 8, 38, 15, 4,
     41, 21, 28, 14, 6, 13, 35, 11, 38, 12, 37, 7, 18, 5, 6, 21, 15, 22, 9, 13,
     13, 37, 3, 17, 35, 24, 10, 41, 4, 5, 0, 18, 36, 11, 11, 33, 3, 0, 27, 3,
     22, 6, 25, 35, 19, 11, 26, 29, 2, 10, 15, 21, 11, 27, 10, 38, 14, 9, 3, 5,
     9, 37, 17, 18, 40, 40, 32, 10, 13, 21, 10, 14, 8, 10, 31, 25, 18, 19, 25,
     28, 0, 35, 19, 14, 40, 31, 14, 1, 18, 18, 15, 4, 24, 10, 31, 22, 12, 34,
     18, 3, 11, 2, 18, 38, 39, 27, 6, 10, 8, 15, 26, 0, 20, 17, 27, 34, 16, 25,
     11, 19, 26, 2, 21, 21, 7, 10, 34, 14, 8, 11, 21, 16, 14, 13, 9, 21, 25, 3,
     24, 12, 41, 39, 5, 29, 14, 4, 36, 38, 33, 26, 41, 23, 28, 27, 36, 35, 12,
     8, 22, 24, 14, 36, 35, 28, 22, 29, 8, 33, 5, 37, 26, 11, 8, 25, 19, 29, 4,
     36, 18, 18, 31, 25, 18, 12, 19, 1, 10, 34, 5, 3, 35, 15, 22, 24, 30, 13,
     32, 0, 35, 13, 26, 12, 31, 15, 25, 13, 34, 32, 8, 31, 39, 9, 8, 39, 40, 5,
     32, 39, 11, 32, 12, 33, 21, 19, 5, 27, 29, 12, 1, 3, 10, 41, 31, 37, 31,
     5, 16, 39, 35, 41, 34, 29, 32, 38, 18, 1, 13, 0, 11, 24, 11, 10, 3, 15,
     21, 24, 39, 2, 10, 3, 39, 26, 27, 34, 0, 37, 13, 26, 16, 31, 12, 11, 10,
     30, 19, 6, 14, 23, 15, 24, 35, 26, 33, 12, 36, 39, 22, 0, 3, 31, 36, 30,
     21, 22, 4, 25, 41, 8, 25, 35, 27, 14, 9, 30, 38, 36, 16, 31, 34, 15, 31,
     16, 8, 0, 30, 31, 1, 2, 13, 8, 30, 7, 24, 23, 14, 35, 18, 21, 27, 16, 7,
     40, 31, 22, 20, 25, 12, 3, 22, 37, 4, 41, 15, 41, 32, 11, 8, 37, 41, 33,
     24, 22, 32, 34, 35, 12, 34, 40, 24, 0, 7, 27, 17, 38, 26, 29, 6, 22, 29,
     38, 37, 11, 21, 41, 3, 2, 7, 30, 13, 29, 34, 33, 1, 28, 33, 29, 36, 34,
     25, 36, 22, 4, 11, 39, 14, 19, 36, 28, 33, 19, 21, 3, 8, 6, 22, 22, 3, 26,
     4, 16, 1, 19, 6, 39, 15, 34, 18, 13, 35, 11, 21, 26, 41, 29, 2, 19, 39,
     35, 15, 5, 11, 31, 7, 37, 11, 28, 29, 10, 21, 26, 11, 22, 26, 40, 11, 7,
     21, 25, 20, 38, 8, 21, 19, 8, 19, 19, 15, 32, 41, 40, 9, 15, 39, 3, 3, 2,
     40, 21, 18, 4, 37, 41, 28, 38, 23, 13, 7, 12, 6, 15, 1, 1, 37, 35, 34, 14,
     18, 22, 33, 12, 21, 23, 35, 14, 0, 16, 37, 7, 26, 5, 11, 26, 4, 19, 24,
     16, 31, 35, 11, 31, 31, 25, 24, 23, 31, 29, 11, 27, 29, 19, 37, 13, 23,
     23, 25, 7, 28, 4, 22, 18, 29, 36, 41, 9, 38, 19, 21, 1, 36, 9, 11, 12, 9,
     12, 12, 22, 15, 31, 39, 39, 15, 28, 30, 30, 16, 8, 31, 27, 14, 27, 2, 32,
     37, 40, 4, 29, 32, 5, 25, 7, 9, 1, 11, 35, 24, 33, 40, 6, 35, 37, 27, 14,
     7, 18, 15, 10, 28, 26, 10, 7, 20, 29, 27, 26, 37, 31, 18, 31, 27, 14, 7,
     15, 30, 31, 12, 22, 3, 25, 18, 32, 36, 2, 40, 7, 40, 41, 9, 12, 6, 38, 31,
     40, 33, 15, 32, 14, 13, 17, 29, 13, 23, 23, 33, 19, 17, 23, 19, 30, 4, 7,
     1, 17, 35, 25, 26, 39, 34, 12, 9, 22, 9, 25, 3, 16, 30, 10, 6, 31, 8, 37,
     25, 37, 22, 20, 10, 2, 40, 9, 3, 39, 22, 24, 38, 30, 10, 11, 27, 28, 9,
     10, 21, 2, 33, 27, 6, 24, 24, 3, 18, 33, 19, 30, 9, 41, 28, 23, 0, 14, 0,
     18, 7, 10, 12, 6, 11, 21, 5, 23, 39, 30, 40, 4, 27, 10, 39, 20, 30, 32, 5,
     4, 34, 34, 18, 1, 1, 33, 29, 15, 28, 33, 0, 31, 41, 36, 37, 18, 25, 4, 33,
     27, 17, 2, 7, 16, 38, 19, 36, 7, 10, 9, 12, 33, 15, 13, 28, 18, 36, 29,
     34, 17, 16, 18, 41, 39, 23, 20, 3, 36, 25, 17, 7, 19, 29, 11, 11, 21, 20,
     0, 2, 15, 29, 16, 0, 10, 8, 32, 9, 41, 12, 7, 0, 20, 21, 32, 28, 22, 2,
     38, 10, 9, 7, 24, 27, 13, 10, 0, 24, 29, 5, 10, 31, 29, 5, 41, 30, 30, 13,
     40, 18, 26, 41, 35, 7, 5, 8, 5, 37, 22, 20, 15, 20, 18, 30, 17, 36, 35,
     36, 31, 7, 17, 35, 14, 24, 8, 34, 14, 15, 34, 3, 0, 17, 18, 4, 16, 32, 37,
     38, 33, 3, 15, 18, 1, 32, 11, 32, 28, 11, 14, 18, 8, 0, 17, 9, 10, 33, 31,
     17, 1, 32, 11, 4, 31, 38, 10, 22, 37, 21, 14, 6, 1, 37, 34, 7, 27, 8, 31,
     15, 29, 22, 3, 23, 27, 1, 1, 11, 30, 41, 18, 36, 29, 11, 18, 35, 20, 21,
     30, 6, 19, 21, 23, 29, 11, 19, 19, 4, 33, 40, 23, 17, 15, 19, 15, 11, 39,
     15, 8, 27, 0, 14, 23, 34, 12, 2, 40, 0, 17, 21, 41, 14, 10, 11, 15, 6, 37,
     21, 30, 11, 27, 38, 9, 40, 11, 30, 39, 19, 39, 16, 18, 38, 25, 2, 6, 22,
     14, 2, 34, 13, 37, 15, 7, 17, 34, 37, 23, 10, 22, 11, 15, 0, 0, 39, 32,
     10, 25, 1, 34, 25, 30, 18, 18, 34, 13, 3, 4, 38, 11, 2, 23, 5, 17, 32, 9,
     17, 39, 36, 36, 1, 40, 23, 6, 41, 5, 41, 1, 3, 19, 25, 24, 34, 4, 30, 13,
     40, 26, 28, 5, 38, 12, 8, 17, 32, 13, 19, 25, 10, 4, 17, 29, 28, 8, 27,
     35, 29, 7, 1, 41, 29, 11, 31, 24, 26, 15, 28, 16, 16, 13, 30, 36, 12, 3,
     10, 31, 14, 0, 35, 18, 2, 31, 21, 35, 35, 34, 37, 16, 33, 20, 27, 9, 26,
     3, 36, 7, 23, 35, 34, 35, 17, 2, 41, 12, 36, 17, 18, 22, 22, 32, 24, 7,
     22, 3, 35, 7, 15, 24, 14, 37, 33, 13, 18, 30, 21, 26, 14, 23, 24, 37, 14,
     33, 8, 12, 9, 39, 4, 12, 19, 29, 27, 5, 16, 30, 6, 5, 34, 0, 3, 7, 35, 14,
     18, 22, 37, 1, 8, 16, 26, 5, 18, 23, 2, 13, 2, 38, 0, 6, 25, 9, 24, 14,
     41, 23, 14, 7, 20, 32, 30, 29, 21, 39, 16, 22, 40, 33, 19, 33, 32, 12, 16,
     31, 15, 14, 22, 3, 10, 41, 10, 33, 0, 12, 21, 13, 39, 40, 12, 5, 38, 33,
     21, 2, 0, 28, 28, 19, 13, 11, 15, 17, 25, 17, 14, 9, 27, 39, 7, 32, 27, 9,
     5, 35, 6, 4, 3, 34, 15, 0, 11, 21, 19, 6, 35, 29, 11, 13, 10, 0, 25, 11,
     27, 35, 13, 12, 15, 19, 1, 16, 13, 4, 35, 29, 20, 3, 30, 15, 37, 27, 10,
     31, 24, 14, 33, 13, 6, 1, 25, 11, 6, 2, 32, 11, 36, 37, 34, 9, 39, 26, 35,
     38, 13, 15, 37, 12, 4, 1, 23, 12, 39, 0, 16, 29, 25, 34, 27, 36, 40, 36,
     25, 16, 22, 9, 10, 21, 18, 16, 3, 41, 13, 20, 14, 23, 32, 39, 25, 39, 15,
     19, 14, 40, 5, 9, 32, 10, 2, 15, 19, 19, 9, 14, 12, 7, 21, 9, 8, 39, 37,
     15, 22, 4, 0, 21, 39, 3, 19, 33, 0, 24, 10, 31, 34, 37, 32, 3, 27, 23, 12,
     8, 19, 17, 17, 40, 9, 35, 6, 28, 18, 16, 20, 5, 9, 17, 8, 35, 29, 26, 29,
     6, 0, 3, 37, 20, 40, 13, 16, 27, 35, 17, 20, 14, 10, 38, 38, 18, 5, 36,
     19, 31, 17, 3, 31, 4, 39, 7, 14, 0, 9, 27, 3, 4, 2, 0, 21, 9, 31, 28, 21,
     38, 40, 12, 32, 29, 7, 32, 1, 28, 38, 27, 29, 27, 17, 4, 15, 13, 34, 36,
     40, 13, 37, 37, 0, 22, 4, 3, 18, 29, 7, 13, 20, 22, 5, 7, 0, 13, 41, 7,
     31, 27, 36, 33, 2, 13, 35, 27, 35, 1, 35, 16, 33, 24, 14, 22, 1, 39, 36,
     27, 27, 30, 18, 10, 27, 41, 36, 33, 6, 13, 11, 23, 37, 26, 24, 17, 7, 11,
     41, 38, 27, 28, 9, 0, 1, 0, 8, 41, 24, 9, 3, 0, 0, 5, 14, 6, 9, 26, 5, 5,
     32, 11, 26, 11, 29, 0, 11, 36, 12, 26, 8, 4, 17, 19, 1, 22, 17, 15, 31,
     37, 17, 12, 32, 31, 21, 25, 14, 30, 24, 36, 12, 2, 36, 24, 33, 31, 32, 15,
     36, 25, 17, 7, 4, 9, 13, 13, 26, 40, 23, 27, 0, 29, 22, 32, 14, 27, 21,
     32, 18, 34, 36, 22, 21, 29, 21, 40, 39, 20, 28, 4, 37, 25, 1, 0, 35, 32,
     25, 16, 10, 20, 38, 26, 1, 8, 3, 36, 35, 38, 18, 13, 2, 10, 14, 16, 14,
     30, 36, 15, 34, 12, 11, 33, 3, 3, 41, 19, 17, 32, 37, 15, 33, 5, 37, 17,
     16, 0, 2, 16, 4, 27, 41, 12, 31, 24, 25, 32, 20, 34, 6, 28, 22, 8, 9, 39,
     26, 20, 21, 35, 26, 9, 39, 35, 32, 29, 28, 13, 41, 29, 6, 34, 17, 2, 37,
     9, 17, 3, 21, 22, 34, 40, 37, 28, 16, 39, 9, 13, 23, 15, 23, 4, 10, 0, 18,
     10, 34, 10, 8, 30, 8, 35, 22, 6, 29, 41, 12, 23, 22, 39, 41, 2, 16, 33,
     17, 21, 23, 0, 1, 37, 16, 18, 23, 31, 37, 3, 26, 0, 22, 34, 20, 15, 35,
     29, 38, 22, 12, 29, 20, 0, 5, 40, 27, 1, 31, 31, 1, 41, 7, 21, 29, 20, 14,
     20, 26, 40, 36, 41, 33, 20, 14, 38, 38, 12, 33, 14, 2, 19, 37, 22, 34, 35,
     33, 12, 38, 3, 21, 3, 16, 37, 34, 41, 23, 21, 6, 20, 38, 14, 35, 12, 33,
     8, 40, 4, 3, 24, 32, 29, 17, 29, 8, 13, 12, 9, 1, 8, 22, 25, 14, 25, 13,
     33, 0, 32, 37, 24, 26, 41, 6, 3, 21, 30, 22, 20, 18, 19, 36, 2, 27, 3, 35,
     11, 33, 13, 26, 21, 40, 19, 21, 21, 10, 39, 14, 6, 8, 30, 37, 24, 40, 9,
     37, 32, 8, 3, 17, 17, 20, 30, 9, 10, 13, 6, 18, 25, 11, 5, 30, 3, 36, 25,
     9, 0, 35, 0, 31, 22, 28, 8, 30, 10, 24, 40, 25, 6, 10, 17, 34, 33, 16, 24,
     14, 20, 13, 39, 15, 13, 26, 9, 4, 18, 34, 15, 11, 12, 25, 11, 22, 21, 1,
     13, 34, 8, 31, 3, 20, 17, 27, 0, 5, 16, 38, 21, 36, 22, 41, 3, 36, 10, 9,
     22, 17, 41, 39, 30, 10, 9, 18, 13, 9, 8, 11, 12, 4, 12, 39, 35, 25, 40,
     39, 3, 1, 13, 22, 41, 1, 29, 33, 11, 32, 36, 3, 27, 19, 32, 6, 27, 0, 1,
     18, 14, 18, 8, 41, 17, 20, 15, 36, 6, 39, 8, 36, 17, 25, 9, 34, 9, 33, 27,
     37, 41, 33, 7, 34, 4, 34, 38, 5, 1, 34, 14, 28, 34, 39, 21, 35, 38, 32,
     15, 38, 17, 37, 16, 20, 1, 4, 38, 19, 30, 19, 30, 21, 6, 13, 26, 6, 39, 2,
     23, 36, 30, 6, 4, 29, 17, 4, 5, 27, 1, 12, 39, 10, 35, 1, 8, 2, 30, 23,
     32, 34, 30, 4, 19, 1, 33, 15, 19, 37, 41, 25, 16, 36, 35, 9, 19, 39, 41,
     38, 20, 6, 37, 8, 25, 16, 35, 15, 15, 35, 30, 41, 5, 5, 28, 20, 37, 19, 1,
     19, 10, 33, 33, 36, 4, 23, 8, 41, 6, 27, 30, 8, 24, 5, 2, 11, 3, 18, 28,
     38, 10, 19, 28, 13, 13, 15, 35, 15, 32, 6, 12, 12, 9, 6, 16, 34, 27, 41,
     13, 12, 10, 20, 5, 33, 17, 1, 21, 18, 8, 12, 28, 41, 25, 10, 1, 13, 10,
     17, 18, 11, 6, 39, 39, 30, 38, 23, 31, 18, 27, 35, 29, 33, 25, 14, 33, 37,
     9, 6, 0, 10, 7, 8, 6, 13, 7, 40, 2, 0, 38, 16, 31, 13, 0, 1, 38, 2, 18,
     11, 27, 15, 33, 8, 22, 41, 22, 40, 2, 36, 16, 41, 29, 10, 32, 7, 22, 31,
     7, 2, 35, 7, 31, 19, 8, 36, 15, 11, 37, 41, 13, 40, 4, 33, 24, 10, 16, 13,
     28, 17, 17, 28, 14, 3, 20, 36, 10, 11, 38, 6, 40, 12, 8, 30, 37, 19, 11,
     5, 0, 29, 31, 13, 19, 32, 29, 28, 38, 10, 40, 26, 13, 28, 12, 17, 34, 33,
     25, 33, 36, 16, 3, 39, 2, 18, 4, 22, 32, 1, 20, 16, 28, 37, 28, 2, 14, 19,
     6, 36, 15, 15, 8, 22, 33, 4, 20, 12, 2, 16, 26, 25, 41, 29, 39, 30, 28,
     37, 36, 31, 13, 11, 36, 1, 16, 35, 12, 20, 14, 26, 34, 2, 17, 35, 17, 41,
     11, 21, 7, 36, 20, 34, 28, 11, 35, 2, 38, 32, 10, 24, 14, 19, 39, 19, 24,
     1, 2, 20, 17, 39, 23, 37, 24, 39, 13, 1, 31, 27, 8, 9, 19, 37, 28, 18, 24,
     14, 16, 7, 29, 1, 22, 3, 5, 31, 36, 21, 40, 29, 22, 25, 0, 4, 31, 15, 40,
     10, 11, 8, 39, 22, 10, 2, 24, 0, 36, 6, 32, 36, 12, 24, 28, 19, 17, 37,
     10, 23, 0, 23, 40, 16, 30, 13, 15, 16, 36, 13, 1, 22, 24, 25, 19, 12, 30,
     10, 10, 7, 2, 8, 28, 16, 19, 9, 10, 28, 39, 5, 28, 40, 22, 37, 7, 32, 4,
     9, 4, 0, 31, 14, 15, 30, 10, 36, 7, 40, 36, 21, 39, 35, 39, 12, 17, 12,
     18, 23, 36, 13, 23, 11, 18, 2, 22, 25, 24, 36, 21, 11, 39, 16, 8, 21, 29,
     11, 9, 3, 23, 15, 33, 6, 25, 6, 8, 4, 27, 30, 18, 34, 33, 36, 27, 18, 17,
     33, 12, 10, 41, 39, 27, 34, 2, 32, 24, 12, 11, 28, 38, 31, 1, 24, 14, 9,
     2, 24, 11, 14, 21, 37, 11, 24, 27, 31, 35, 9, 36, 3, 19, 30, 37, 14, 28,
     29, 1, 31, 35, 5, 13, 18, 39, 40, 7, 16, 5, 2, 8, 39, 38, 8, 26, 26, 18,
     35, 3, 11, 4, 38, 33, 18, 3, 35, 32, 36, 39, 27, 20, 33, 5, 35, 12, 18,
     36, 0, 14, 34, 16, 37, 30, 9, 20, 14, 27, 29, 21, 3, 36, 7, 26, 34, 19, 2,
     23, 4, 7, 8, 7, 24, 31, 18, 40, 3, 13, 13, 22, 28, 11, 17, 16, 14, 2, 31,
     1, 17, 9, 17, 29, 33, 36, 26, 11, 0, 6, 37, 15, 15, 14, 14, 8, 11, 19, 19,
     2, 4, 1, 19, 27, 36, 16, 25, 32, 22, 22, 6, 28, 30, 12, 27, 8, 4, 13, 22,
     16, 10, 40, 29, 11, 2, 30, 38, 30, 28, 40, 29, 5, 19, 16, 24, 6, 26, 29,
     11, 26, 14, 28, 19, 40, 19, 1, 2, 28, 3, 32, 20, 14, 17, 35, 22, 17, 19,
     24, 19, 29, 17, 11, 5, 19, 7, 8, 7, 14, 38, 21, 11, 19, 19, 2, 33, 21, 41,
     26, 10, 41, 4, 6, 6, 6, 5, 37, 6, 20, 6, 13, 3, 15, 11, 30, 41, 8, 19, 25,
     41, 2, 27, 16, 21, 29, 29, 16, 34, 24, 9, 8, 8, 34, 36, 6, 24, 3, 2, 28,
     23, 18, 18, 19, 15, 11, 39, 2, 24, 7, 15, 1, 6, 25, 1, 17, 25, 23, 4, 17,
     13, 33, 36, 24, 32, 17, 41, 30, 37, 6, 29, 28, 29, 37, 9, 5, 23, 9, 40,
     38, 20, 33, 25, 38, 23, 8, 41, 11, 4, 32, 27, 36, 9, 38, 34, 26, 0, 32,
     15, 5, 13, 39, 13, 19, 37, 29, 15, 14, 23, 22, 30, 27, 7, 36, 33, 21, 6,
     19, 36, 11, 13, 29, 31, 34, 16, 30, 9, 2, 28, 9, 36, 13, 14, 35, 1, 40,
     13, 1, 14, 5, 10, 21, 23, 7, 41, 6, 4, 11, 0, 36, 6, 0, 26, 14, 5, 19, 7,
     3, 21, 10, 14, 20, 41, 25, 23, 12, 19, 11, 35, 39, 35, 17, 30, 12, 33, 39,
     7, 3, 41, 24, 32, 35, 33, 4, 10, 15, 36, 30, 9, 5, 33, 36, 0, 13, 4, 18,
     0, 16, 7, 2, 40, 6, 38, 30, 14, 15, 15, 11, 24, 5, 24, 20, 7, 40, 12, 26,
     30, 30, 24, 19, 17, 31, 2, 23, 35, 19, 20, 29, 32, 13, 25, 34, 25, 8, 41,
     14, 27, 2, 28, 23, 38, 9, 0, 13, 18, 28, 12, 32, 35, 1, 41, 2, 10, 3, 33,
     40, 11, 23, 40, 32, 10, 19, 38, 36, 20, 24, 2, 16, 33, 1, 8, 23, 0, 7, 31,
     7, 20, 39, 22, 28, 2, 22, 22, 20, 20, 2, 25, 14, 29, 10, 38, 19, 34, 21,
     11, 18, 11, 22, 15, 11, 41, 40, 21, 23, 34, 26, 17, 21, 33, 2, 17, 3, 23,
     1, 18, 5, 14, 40, 9, 15, 33, 8, 9, 17, 25, 8, 10, 2, 11, 16, 24, 12, 22,
     32, 11, 30, 31, 38, 31, 26, 26, 16, 37, 7, 15, 5, 21, 37, 27, 0, 37, 2, 8,
     20, 0, 33, 28, 40, 27, 18, 9, 13, 26, 34, 7, 22, 27, 9, 29, 11, 14, 8, 39,
     1, 12, 25, 21, 9, 21, 19, 22, 18, 6, 29, 13, 33, 14, 36, 10, 27, 40, 12,
     33, 23, 0, 24, 15, 2, 33, 29, 39, 5, 15, 24, 14, 5, 15, 18, 20, 18, 17,
     21, 28, 10, 20, 35, 32, 32, 38, 20, 35, 33, 14, 32, 20, 23, 6, 30, 13, 18,
     22, 31, 41, 36, 27, 12, 22, 26, 14, 38, 13, 22, 40, 8, 17, 38, 39, 18, 29,
     23, 3, 38, 36, 38, 8, 22, 34, 36, 35, 2, 28, 14, 5, 21, 3, 12, 18, 16, 13,
     20, 21, 6, 9, 13, 0, 21, 37, 10, 37, 15, 18, 32, 18, 20, 38, 2, 18, 12,
     20, 23, 28, 12, 38, 39, 32, 25, 33, 2, 26, 18, 13, 28, 15, 37, 4, 11, 19,
     5, 4, 28, 11, 5, 29, 36, 25, 26, 11, 38, 32, 33, 22, 9, 19, 16, 26, 5, 8,
     23, 5, 6, 22, 18, 34, 41, 23, 27, 17, 25, 15, 36, 21, 10, 17, 35, 1, 41,
     31, 21, 11, 10, 14, 30, 26, 20, 15, 17, 6, 15, 28, 0, 39, 0, 18, 12, 22,
     10, 25, 1, 37, 38, 36, 29, 5, 26, 24, 33, 19, 33, 12, 1, 6, 41, 13, 5, 6,
     40, 33, 18, 2, 33, 0, 31, 17, 15, 0, 27, 36, 18, 36, 7, 13, 18, 7, 41, 21,
     0, 26, 6, 14, 34, 14, 11, 36, 11, 39, 1, 2, 41, 25, 23, 33, 12, 36, 11,
     36, 20, 37, 40, 33, 6, 19, 38, 18, 8, 19, 5, 3, 24, 0, 17, 13, 33, 15, 18,
     26, 7, 20, 8, 16, 33, 39, 39, 33, 1, 17, 15, 15, 19, 28, 0, 24, 2, 31, 39,
     28, 32, 41, 38, 12, 25, 20, 21, 17, 0, 13, 1, 37, 33, 2, 26, 36, 26, 27,
     20, 16, 14, 3, 12, 8, 17, 15, 12, 41, 9, 16, 34, 15, 2, 23, 14, 33, 13,
     13, 21, 26, 5, 2, 32, 10, 39, 34, 22, 3, 10, 0, 24, 23, 30, 15, 38, 36,
     28, 21, 38, 21, 0, 37, 3, 15, 15, 35, 25, 22, 41, 37, 27, 18, 9, 37, 29,
     38, 17, 40, 3, 12, 39, 32, 7, 14, 9, 26, 29, 25, 16, 2, 13, 38, 30, 25,
     24, 16, 0, 8, 13, 0, 14, 13, 17, 17, 32, 21, 37, 23, 13, 18, 28, 6, 29,
     40, 30, 28, 35, 0, 23, 16, 7, 16, 1, 29, 4, 15, 3, 41, 9, 22, 0, 12, 17,
     0, 37, 27, 1, 18, 5, 17, 32, 8, 34, 20, 26, 41, 7, 30, 38, 20, 9, 32, 19,
     1, 37, 5, 31, 7, 19, 21, 11, 23, 41, 13, 25, 39, 6, 37, 38, 26, 1, 11, 9,
     21, 8, 39, 40, 3, 34, 17, 21, 18, 15, 21, 24, 13, 9, 15, 7, 26, 23, 30,
     26, 26, 9, 17, 4, 33, 38, 27, 21, 13, 22, 32, 20, 24, 3, 9, 23, 36, 11,
     21, 13, 4, 12, 28, 15, 18, 22, 25, 25, 28, 37, 27, 23, 38, 18, 22, 3, 26,
     24, 39, 2, 10, 31, 32, 28, 9, 38, 23, 35, 34, 27, 21, 27, 5, 31, 39, 25,
     27, 31, 27, 5, 35, 33, 9, 23, 4, 10, 15, 20, 32, 39, 31, 13, 13, 3, 23,
     16, 23, 17, 27, 31, 17, 20, 28, 8, 26, 4, 12, 18, 20, 16, 36, 11, 33, 30,
     8, 11, 30, 23, 25, 36, 6, 7, 41, 12, 25, 11, 5, 34, 31, 12, 3, 32, 11, 32,
     10, 41, 5, 14, 9, 26, 32, 5, 22, 39, 16, 30, 29, 12, 37, 33, 19, 8, 4, 36,
     23, 21, 17, 0, 7, 2, 37, 39, 17, 26, 24, 40, 41, 5, 39, 25, 15, 33, 1, 34,
     36, 3, 11, 41, 39, 25, 40, 3, 17, 35, 2, 13, 6, 24, 41, 20, 34, 2, 17, 40,
     40, 10, 6, 11, 39, 5, 10, 13, 18, 32, 21, 33, 20, 34, 14, 25, 15, 17, 7,
     36, 14, 39, 27, 4, 37, 35, 25, 11, 35, 12, 38, 36, 3, 14, 41, 33, 9, 17,
     37, 0, 6, 29, 16, 27, 17, 20, 27, 30, 4, 24, 41, 40, 3, 22, 8, 41, 11, 38,
     16, 38, 3, 22, 25, 17, 12, 34, 3, 35, 37, 34, 26, 17, 19, 10, 11, 21, 2,
     0, 28, 40, 29, 3, 4, 2, 24, 31, 19, 2, 39, 32, 7, 36, 38, 12, 23, 0, 14,
     8, 39, 30, 10, 31, 5, 2, 17, 34, 38, 12, 11, 18, 16, 29, 19, 10, 11, 23,
     3, 7, 7, 8, 1, 22, 26, 12, 39, 12, 20, 27, 26, 39, 1, 3, 2, 4, 15, 22, 32,
     36, 24, 22, 18, 8, 9, 14, 4, 26, 10, 40, 13, 31, 11, 9, 18, 22, 40, 7, 1,
     3, 35, 2, 39, 7, 38, 14, 38, 19, 15, 0, 16, 19, 39, 21, 35, 18, 26, 25, 5,
     24, 29, 17, 7, 6, 17, 40, 19, 10, 20, 31, 35, 5, 19, 2, 13, 19, 7, 5, 33,
     8, 31, 5, 6, 8, 34, 3, 8, 25, 18, 37, 12, 1, 29, 17, 22, 7, 39, 32, 10,
     15, 5, 40, 5, 17, 8, 20, 25, 10, 24, 28, 9, 41, 16, 23, 40, 12, 0, 10, 4,
     3, 38, 27, 7, 16, 15, 4, 11, 0, 38, 19, 22, 34, 23, 19, 30, 22, 13, 31, 3,
     24, 6, 21, 7, 22, 14, 28, 13, 4, 25, 17, 30, 26, 0, 24, 0, 38, 24, 24, 15,
     2, 12, 12, 7, 40, 10, 21, 9, 35, 4, 40, 6, 10, 18, 13, 3, 33, 2, 12, 0, 2,
     15, 23, 0, 18, 14, 40, 40, 24, 29, 1, 22, 37, 36, 29, 32, 39, 24, 7, 28,
     10, 37, 8, 36, 27, 27, 8, 19, 21, 41, 29, 31, 41, 18, 26, 23, 18, 13, 14,
     3, 39, 10, 35, 14, 13, 1, 20, 8, 15, 32, 39, 2, 30, 37, 35, 34, 32, 20, 2,
     8, 33, 16, 19, 29, 17, 11, 12, 38, 19, 31, 28, 14, 16, 21, 21, 24, 8, 18,
     31, 11, 18, 32, 27, 24, 4, 28, 31, 4, 7, 37, 19, 33, 2, 37, 24, 9, 29, 21,
     9, 41, 1, 13, 35, 37, 7, 40, 4, 14, 33, 6, 14, 16, 21, 15, 10, 19, 18, 27,
     4, 1, 32, 26, 29, 27, 2, 5, 38, 21, 14, 31, 9, 40, 29, 9, 31, 21, 11, 5,
     6, 21, 18, 38, 14, 24, 35, 32, 27, 37, 27, 34, 28, 8, 25, 31, 28, 17, 1,
     24, 34, 37, 25, 20, 9, 8, 34, 1, 18, 12, 16, 41, 2, 30, 30, 2, 8, 11, 7,
     16, 33, 41, 23, 18, 24, 12, 23, 12, 20, 18, 23, 23, 25, 17, 14, 16, 22, 2,
     26, 27, 8, 37, 28, 35, 17, 40, 10, 22, 22, 12, 20, 39, 0, 31, 6, 22, 29,
     21, 34, 33, 1, 10, 30, 29, 21, 2, 7, 13, 21, 30, 10, 27, 27, 15, 35, 9,
     32, 9, 32, 18, 13, 35, 15, 32, 20, 2, 12, 9, 5, 0, 24, 20, 28, 15, 1, 36,
     31, 35, 18, 10, 39, 3, 23, 4, 12, 39, 37, 21, 3, 21, 38, 36, 2, 10, 20, 2,
     15, 23, 11, 31, 39, 11, 21, 30, 6, 21, 23, 35, 24, 37, 30, 5, 31, 20, 23,
     20, 24, 17, 17, 36, 8, 15, 15, 0, 3, 19, 41, 23, 10, 1, 11, 39, 12, 35,
     25, 4, 38, 18, 1, 37, 25, 3, 16, 17, 9, 26, 35, 27, 8, 41, 25, 6, 35, 39,
     34, 41, 22, 2, 38, 28, 41, 41, 27, 4, 37, 3, 17, 17, 6, 13, 30, 6, 28, 8,
     5, 38, 10, 0, 25, 21, 23, 40, 12, 23, 34, 8, 25, 12, 39, 1, 8, 30, 3, 27,
     14, 27, 26, 29, 39, 7, 2, 12, 1, 15, 41, 9, 15, 1, 30, 17, 22, 39, 11, 26,
     10, 39, 41, 15, 39, 7, 1, 16, 13, 8, 13, 9, 14, 29, 9, 24, 35, 21, 4, 10,
     5, 11, 30, 29, 19, 1, 24, 39, 18, 23, 23, 19, 39, 2, 17, 39, 4, 38, 23,
     18, 38, 40, 5, 9, 2, 14, 22, 14, 27, 1, 1, 18, 13, 17, 26, 23, 1, 3, 0,
     31, 39, 35, 18, 32, 24, 3, 3, 31, 21, 27, 16, 11, 9, 21, 19, 22, 19, 31,
     3, 37, 8, 17, 11, 0, 2, 0, 21, 5, 26, 23, 36, 10, 12, 29, 33, 34, 38, 35,
     0, 21, 28, 38, 19, 12, 3, 8, 4, 19, 5, 35, 6, 25, 12, 12, 7, 17, 32, 22,
     20, 9, 13, 35, 3, 27, 33, 22, 14, 9, 28, 27, 6, 13, 34, 2, 37, 25, 8, 39,
     14, 26, 19, 5, 14, 6, 30, 39, 2, 8, 18, 23, 17, 28, 41, 5, 6, 20, 27, 31,
     20, 37, 41, 37, 15, 41, 24, 33, 34, 0, 41, 33, 27, 29, 15, 23, 15, 12, 17,
     16, 34, 18, 5, 32, 29, 38, 27, 0, 5, 39, 27, 17, 37, 3, 34, 8, 1, 35, 35,
     0, 28, 39, 36, 23, 35, 33, 21, 38, 7, 8, 16, 36, 4, 12, 20, 41, 21, 41, 4,
     15, 5, 7, 36, 14, 18, 20, 1, 41, 25, 39, 5, 25, 32, 30, 17, 34, 38, 28,
     31, 7, 25, 28, 8, 29, 5, 31, 16, 0, 13, 32, 16, 21, 19, 2, 19, 18, 31, 10,
     1, 34, 30, 0, 7, 33, 13, 12, 25, 37, 28, 1, 16, 41, 26, 25, 28, 30, 1, 36,
     7, 19, 9, 0, 6, 20, 30, 16, 17, 35, 25, 27, 25, 11, 39, 12, 8, 38, 18, 31,
     20, 9, 16, 14, 18, 17, 0, 8, 29, 20, 10, 32, 9, 37, 41, 23, 17, 37, 26, 2,
     22, 35, 31, 33, 11, 37, 31, 15, 33, 17, 9, 25, 33, 32, 33, 40, 32, 39, 18,
     12, 14, 15, 15, 19, 3, 23, 24, 14, 10, 41, 33, 33, 29, 3, 12, 30, 32, 7,
     25, 31, 34, 4, 32, 24, 40, 1, 30, 39, 34, 9, 18, 40, 24, 19, 16, 20, 3,
     15, 37, 36, 7, 28, 37, 8, 13, 23, 11, 28, 32, 15, 35, 41, 8, 28, 4, 29, 2,
     15, 31, 27, 16, 6, 33, 23, 8, 35, 30, 28, 17, 31, 5, 9, 28, 18, 12, 0, 8,
     32, 2, 25, 16, 16, 15, 39, 40, 20, 33, 21, 34, 40, 13, 24, 12, 30, 10, 35,
     39, 6, 28, 1, 0, 3, 20, 35, 3, 37, 18, 8, 27, 33, 19, 19, 35, 37, 5, 26,
     40, 37, 5, 40, 27, 38, 16, 41, 31, 9, 22, 1, 30, 24, 11, 23, 37, 9, 18,
     12, 34, 8, 40, 27, 41, 11, 15, 10, 31, 3, 3, 35, 33, 36, 26, 10, 10, 34,
     7, 9, 33, 35, 10, 8, 40, 9, 27, 39, 3, 6, 23, 8, 41, 20, 38, 29, 11, 9,
     22, 19, 39, 11, 13, 13, 31, 29, 24, 7, 26, 23, 33, 14, 13, 35, 0, 38, 32,
     32, 18, 11, 13, 25, 6, 39, 36, 15, 34, 36, 36, 40, 0, 34, 35, 39, 29, 7,
     26, 24, 9, 7, 34, 28, 6, 17, 14, 41, 27, 11, 11, 37, 23, 23, 22, 8, 1, 21,
     9, 37, 20, 15, 38, 27, 33, 32, 29, 33, 15, 22, 11, 35, 17, 16, 28, 2, 0,
     36, 7, 25, 16, 19, 10, 26, 1, 10, 33, 30, 23, 10, 0, 5, 39, 40, 15, 28,
     18, 34, 17, 36, 1, 32, 16, 41, 8, 5, 25, 20, 7, 6, 16, 32, 23, 28, 7, 25,
     0, 0, 2, 4, 36, 39, 22, 13, 16, 32, 25, 19, 27, 22, 39, 7, 31, 2, 38, 34,
     38, 7, 29, 13, 18, 28, 16, 40, 3, 15, 6, 38, 25, 26, 19, 13, 0, 17, 15,
     18, 27, 9, 8, 5, 33, 41, 7, 10, 7, 16, 22, 38, 7, 11, 37, 5, 38, 40, 33,
     8, 22, 32, 21, 10, 26, 31, 27, 7, 2, 13, 29, 20, 41, 11, 34, 2, 9, 2, 29,
     39, 14, 12, 4, 9, 14, 5, 24, 17, 2, 29, 17, 16, 36, 12, 33, 5, 39, 4, 36,
     41, 14, 23, 26, 35, 11, 29, 17, 0, 28, 38, 18, 17, 22, 40, 26, 34, 32, 0,
     27, 41, 26, 8, 23, 40, 17, 11, 39, 30, 14, 17, 2, 4, 34, 32, 28, 41, 14,
     40, 29, 0, 20, 31, 22, 12, 40, 19, 14, 23, 12, 14, 28, 0, 5, 7, 13, 19, 4,
     37, 3, 3, 30, 14, 10, 24, 0, 9, 20, 40, 17, 30, 26, 2, 25, 33, 38, 24, 22,
     26, 36, 34, 37, 41, 16, 38, 26, 39, 28, 27, 31, 19, 29, 39, 7, 25, 25, 27,
     33, 15, 2, 12, 39, 31, 40, 24, 39, 15, 23, 31, 15, 6, 6, 22, 11, 16, 37,
     33, 2, 23, 21, 10, 8, 6, 32, 38, 17, 36, 13, 2, 35, 16, 14, 17, 41, 7, 3,
     22, 33, 0, 21, 40, 20, 7, 13, 32, 17, 22, 10, 37, 23, 31, 11, 24, 0, 24,
     20, 11, 7, 27, 28, 36, 30, 40, 15, 0, 21, 14, 25, 21, 40, 41, 30, 14, 13,
     9, 7, 20, 28, 19, 20, 14, 14, 38, 15, 0, 25, 23, 2, 21, 33, 11, 14, 27,
     25, 37, 11, 17, 7, 41, 15, 33, 23, 3, 37, 9, 0, 39, 11, 2, 5, 28, 29, 19,
     19, 11, 38, 3, 3, 35, 36, 30, 41, 38, 14, 5, 25, 2, 19, 2, 33, 1, 34, 38,
     5, 20, 3, 10, 3, 17, 6, 20, 33, 23, 41, 34, 38, 13, 30, 35, 41, 36, 15,
     40, 21, 35, 2, 24, 29, 39, 30, 14, 19, 26, 5, 13, 41, 9, 30, 2, 9, 3, 17,
     7, 0, 39, 15, 8, 5, 6, 13, 19, 3, 25, 5, 29, 9, 24, 29, 8, 36, 27, 13, 16,
     18, 41, 32, 1, 35, 22, 34, 6, 13, 40, 36, 25, 21, 10, 15, 21, 18, 20, 28,
     38, 29, 33, 5, 22, 15, 5, 12, 36, 41, 18, 3, 22, 6, 18, 4, 25, 12, 12, 9,
     10, 31, 36, 9, 4, 23, 12, 5, 31, 26, 15, 38, 21, 25, 22, 33, 40, 7, 22,
     29, 35, 34, 2, 6, 33, 13, 38, 21, 22, 14, 1, 17, 26, 7, 10, 23, 24, 25, 5,
     33, 18, 41, 6, 2, 34, 38, 10, 18, 26, 25, 27, 41, 41, 0, 3, 22, 14, 7, 22,
     14, 41, 41, 38, 16, 35, 20, 1, 30, 33, 8, 27, 32, 9, 15, 35, 39, 7, 20,
     13, 35, 35, 11, 22, 16, 14, 32, 4, 9, 29, 21, 19, 9, 14, 21, 37, 36, 31,
     22, 28, 24, 39, 33, 35, 32, 23, 18, 18, 38, 35, 7, 38, 5, 17, 2, 1, 18,
     34, 8, 6, 33, 33, 39, 34, 11, 10, 12, 31, 37, 16, 41, 33, 13, 31, 15, 37,
     27, 27, 24, 15, 26, 37, 8, 30, 28, 22, 15, 16, 12, 38, 5, 5, 28, 34, 2,
     12, 37, 39, 28, 20, 19, 34, 40, 22, 28, 34, 34, 18, 2, 40, 18, 28, 26, 4,
     1, 20, 38, 23, 34, 13, 23, 33, 12, 16, 38, 9, 6, 18, 13, 29, 16, 27, 8,
     31, 38, 11, 21, 39, 2, 5, 12, 18, 17, 0, 12, 1, 16, 13, 17, 25, 0, 30, 25,
     2, 20, 39, 39, 37, 7, 34, 22, 30, 27, 32, 19, 7, 34, 2, 12, 35, 13, 19,
     39, 35, 26, 30, 13, 26, 35, 6, 16, 21, 8, 39, 35, 1, 18, 21, 0, 34, 17, 9,
     12, 6, 25, 41, 19, 2, 35, 33, 18, 28, 8, 33, 41, 7, 16, 13, 5, 4, 14, 0,
     24, 8, 21, 39, 33, 8, 2, 26, 0, 19, 4, 25, 19, 21, 30, 14, 14, 14, 4, 7,
     10, 17, 0, 36, 33, 40, 35, 0, 29, 35, 37, 32, 38, 25, 14, 17, 27, 25, 29,
     2, 14, 33, 27, 17, 21, 8, 29, 32, 10, 12, 17, 31, 0, 39, 41, 33, 26, 16,
     35, 0, 4, 26, 10, 9, 3, 32, 35, 23, 1, 30, 30, 14, 7, 14, 11, 6, 40, 31,
     20, 13, 4, 23, 14, 31, 6, 18, 22, 25, 13, 12, 33, 28, 23, 22, 10, 41, 3,
     21, 1, 1, 32, 23, 15, 34, 1, 14, 40, 34, 21, 31, 39, 16, 3, 34, 22, 36,
     27, 10, 0, 24, 19, 14, 29, 16, 34, 2, 0, 15, 7, 37, 26, 40, 12, 35, 41,
     36, 32, 5, 37, 3, 14, 7, 5, 40, 25, 37, 15, 16, 34, 40, 32, 36, 35, 32,
     38, 32, 0, 7, 14, 10, 40, 36, 22, 10, 4, 2, 7, 10, 35, 12, 20, 25, 40, 29,
     11, 19, 13, 9, 31, 23, 14, 26, 5, 24, 34, 38, 22, 10, 31, 41, 13, 13, 7,
     14, 32, 23, 8, 8, 7, 26, 4, 9, 16, 33, 37, 17, 33, 8, 10, 15, 25, 28, 30,
     9, 4, 7, 6, 24, 39, 35, 32, 23, 10, 38, 26, 41, 24, 7, 7, 36, 6, 18, 18,
     14, 40, 37, 5, 40, 23, 5, 35, 15, 19, 10, 21, 11, 40, 4, 15, 18, 34, 20,
     29, 9, 31, 23, 36, 37, 16, 24, 29, 38, 6, 21, 34, 6, 41, 25, 27, 1, 18,
     21, 9, 41, 23, 16, 34, 38, 11, 1, 12, 10, 17, 41, 3, 17, 3, 14, 35, 23,
     36, 12, 27, 5, 21, 4, 29, 20, 23, 26, 21, 3, 18, 36, 27, 24, 37, 27, 10,
     28, 34, 9, 10, 8, 40, 12, 32, 2, 1, 30, 8, 19, 26, 11, 25, 4, 4, 2, 28,
     29, 20, 15, 40, 13, 35, 40, 32, 37, 17, 27, 38, 5, 23, 29, 33, 24, 40, 34,
     41, 38, 22, 41, 25, 4, 26, 25, 11, 32, 29, 39, 19, 21, 25, 31, 30, 3, 32,
     6, 12, 4, 31, 0, 39, 13, 8, 27, 40, 30, 16, 14, 27, 10, 11, 27, 4, 26, 32,
     36, 16, 26, 18, 25, 16, 17, 33, 11, 40, 21, 9, 13, 7, 30, 14, 3, 16, 34,
     16, 0, 17, 22, 29, 9, 10, 20, 28, 41, 21, 5, 19, 2, 21, 28, 7, 13, 25, 3,
     14, 17, 32, 27, 0, 17, 23, 19, 13, 18, 40, 21, 36, 13, 18, 31, 17, 39, 15,
     34, 38, 3, 13, 9, 21, 40, 26, 22, 10, 14, 0, 36, 1, 29, 4, 22, 34, 23, 38,
     7, 39, 41, 41, 13, 20, 41, 27, 28, 1, 10, 8, 10, 27, 9, 29, 41, 20, 3, 29,
     40, 12, 40, 38, 21, 13, 22, 26, 10, 39, 27, 26, 41, 9, 18, 16, 31, 41, 2,
     4, 9, 24, 33, 40, 26, 16, 26, 16, 1, 7, 18, 25, 29, 31, 2, 9, 6, 19, 33,
     29, 22, 3, 17, 27, 6, 18, 17, 11, 17, 22, 38, 35, 20, 38, 25, 28, 25, 39,
     22, 16, 32, 20, 14, 35, 28, 2, 22, 24, 15, 41, 2, 18, 34, 19, 18, 37, 28,
     28, 32, 7, 27, 1, 7, 31, 34, 39, 8, 21, 4, 3, 26, 0, 0, 31, 13, 18, 14,
     11, 21, 38, 33, 2, 14, 14, 29, 38, 41, 2, 9, 39, 32, 35, 12, 1, 27, 0, 9,
     10, 7, 13, 30, 14, 33, 18, 15, 18, 24, 38, 9, 10, 31, 41, 39, 4, 20, 1,
     13, 9, 10, 3, 9, 41, 28, 29, 10, 13, 35, 38, 20, 4, 20, 28, 31, 33, 41, 4,
     38, 19, 24, 23, 25, 18, 34, 14, 10, 10, 12, 14, 41, 19, 13, 18, 25, 14,
     14, 28, 28, 29, 31, 16, 9, 24, 4, 29, 36, 30, 4, 29, 14, 3, 40, 17, 3, 18,
     26, 39, 3, 34, 5, 5, 4, 28, 31, 32, 8, 27, 20, 15, 19, 38, 8, 10, 5, 25,
     1, 22, 28, 18, 2, 15, 29, 27, 31, 16, 40, 0, 24, 13, 4, 21, 26, 8, 36, 24,
     11, 14, 26, 32, 1, 10, 18, 37, 23, 17, 22, 16, 10, 8, 5, 41, 9, 23, 25, 6,
     8, 3, 22, 6, 29, 39, 0, 37, 30, 6, 24, 15, 12, 14, 40, 16, 18, 5, 36, 13,
     11, 10, 35, 5, 16, 26, 12, 27, 39, 6, 36, 22, 37, 7, 3, 38, 8, 37, 8, 36,
     35, 7, 37, 22, 33, 9, 24, 20, 7, 13, 41, 11, 39, 17, 13, 27, 27, 17, 12,
     28, 6, 11, 39, 13, 22, 40, 9, 2, 26, 27, 32, 41, 24, 28, 30, 1, 39, 5, 9,
     6, 34, 39, 23, 2, 3, 5, 10, 8, 39, 21, 5, 41, 14, 3, 2, 15, 26, 32, 23,
     40, 29, 38, 19, 14, 7, 31, 4, 16, 16, 13, 25, 16, 4, 14, 3, 23, 4, 11, 19,
     2, 7, 16, 13, 23, 19, 26, 7, 23, 3, 39, 7, 5, 40, 20, 3, 7, 6, 23, 10, 23,
     38, 34, 12, 25, 29, 37, 30, 41, 38, 27, 18, 35, 34, 15, 31, 37, 24, 15, 5,
     28, 11, 9, 3, 35, 34, 8, 11, 14, 23, 3, 6, 30, 39, 1, 20, 27, 14, 34, 1,
     28, 11, 28, 27, 41, 30, 13, 5, 32, 35, 22, 15, 23, 12, 37, 31, 9, 1, 8,
     21, 26, 32, 26, 20, 13, 32, 32, 2, 40, 17, 10, 8, 28, 25, 38, 7, 19, 32,
     12, 27, 41, 7, 30, 38, 23, 29, 11, 34, 12, 0, 39, 30, 41, 6, 22, 39, 17,
     27, 30, 38, 41, 4, 11, 27, 30, 28, 37, 30, 29, 15, 14, 26, 17, 28, 5, 20,
     11, 31, 30, 0, 27, 33, 41, 19, 29, 11, 5, 9, 38, 33, 9, 20, 12, 8, 26, 22,
     36, 0, 0, 25, 26, 14, 31, 36, 41, 2, 4, 6, 9, 24, 41, 39, 39, 2, 3, 22,
     37, 36, 36, 30, 20, 39, 26, 25, 25, 17, 3, 40, 26, 10, 20, 2, 17, 40, 5,
     17, 8, 30, 3, 22, 28, 13, 30, 37, 4, 27, 30, 34, 34, 36, 9, 33, 16, 13,
     27, 10, 33, 25, 34, 0, 39, 31, 1, 18, 15, 8, 6, 41, 23, 0, 0, 31, 34, 19,
     31, 10, 8, 41, 15, 37, 32, 37, 20, 17, 2, 12, 32, 16, 21, 17, 13, 40, 39,
     2, 41, 26, 24, 17, 16, 17, 19, 18, 30, 33, 38, 12, 5, 29, 27, 7, 22, 35,
     9, 0, 30, 23, 40, 23, 8, 39, 40, 41, 24, 34, 6, 9, 21, 7, 33, 19, 19, 38,
     18, 16, 27, 16, 33, 4, 23, 6, 30, 0, 14, 25, 21, 7, 37, 40, 1, 23, 14, 39,
     15, 39, 29, 6, 40, 6, 26, 37, 41, 3, 15, 22, 8, 41, 41, 0, 17, 21, 30, 6,
     36, 20, 18, 33, 9, 21, 6, 37, 7, 7, 30, 15, 41, 7, 27, 17, 5, 20, 1, 41,
     24, 6, 18, 28, 30, 5, 19, 39, 34, 15, 4, 10, 31, 4, 8, 0, 16, 39, 23, 9,
     0, 41, 17, 22, 10, 26, 39, 22, 15, 38, 2, 20, 37, 17, 14, 36, 27, 30, 18,
     10, 24, 38, 16, 16, 37, 10, 6, 18, 38, 21, 12, 12, 19, 38, 7, 26, 41, 36,
     22, 41, 13, 3, 14, 14, 38, 9, 4, 14, 19, 38, 11, 13, 10, 8, 0, 27, 12, 14,
     28, 6, 6, 3, 37, 26, 18, 0, 23, 4, 35, 41, 15, 14, 7, 37, 6, 18, 4, 11,
     39, 19, 4, 7, 2, 21, 29, 9, 3, 9, 41, 33, 21, 4, 10, 0, 14, 2, 25, 30, 10,
     14, 8, 12, 39, 4, 4, 39, 33, 34, 2, 21, 5, 23, 40, 21, 40, 17, 24, 9, 5,
     0, 1, 12, 39, 26, 25, 4, 7, 31, 34, 1, 40, 25, 11, 41, 26, 29, 25, 12, 36,
     32, 5, 18, 25, 32, 37, 39, 12, 3, 14, 5, 38, 10, 16, 15, 11, 16, 5, 1, 40,
     39, 9, 14, 22, 11, 26, 3, 39, 36, 13, 10, 39, 40, 5, 4, 15, 24, 31, 26,
     28, 33, 35, 2, 20, 0, 18, 33, 0, 4, 13, 1, 16, 11, 8, 0, 13, 10, 19, 5,
     40, 33, 14, 24, 6, 36, 35, 35, 6, 16, 11, 20, 15, 38, 17, 33, 33, 20, 2,
     24, 0, 41, 0, 1, 10, 28, 34, 0, 16, 24, 12, 41, 15, 13, 36, 38, 35, 9, 36,
     14, 9, 15, 34, 29, 32, 21, 19, 34, 3, 11, 30, 36, 27, 25, 7, 22, 38, 7,
     29, 38, 24, 13, 31, 0, 37, 27, 1, 21, 10, 25, 3, 5, 37, 5, 15, 8, 26, 20,
     25, 34, 8, 24, 34, 14, 15, 9, 14, 25, 38, 38, 9, 36, 30, 13, 26, 10, 35,
     38, 29, 24, 24, 10, 8, 20, 8, 30, 26, 14, 30, 8, 32, 3, 4, 21, 7, 39, 15,
     41, 0, 27, 1, 26, 28, 30, 31, 19, 22, 15, 0, 12, 6, 0, 14, 11, 33, 26, 23,
     11, 41, 3, 10, 33, 12, 39, 1, 34, 32, 41, 29, 9, 21, 11, 40, 28, 20, 33,
     40, 29, 30, 5, 19, 13, 14, 31, 33, 31, 30, 30, 6, 3, 41, 21, 17, 41, 26,
     7, 31, 2, 20, 13, 32, 40, 21, 32, 23, 1, 15, 30, 7, 0, 22, 17, 24, 36, 33,
     4, 15, 25, 16, 40, 14, 33, 24, 26, 35, 16, 39, 9, 19, 9, 41, 29, 31, 27,
     27, 21, 25, 6, 24, 30, 22, 36, 33, 15, 10, 25, 38, 23, 7, 36, 27, 4, 2,
     24, 31, 38, 39, 35, 37, 24, 37, 29, 20, 3, 19, 40, 32, 24, 28, 34, 11, 28,
     13, 23, 1, 27, 36, 25, 26, 28, 16, 0, 13, 28, 16, 14, 34, 11, 36, 41, 4,
     19, 17, 10, 31, 14, 14, 14, 23, 21, 10, 18, 32, 33, 13, 19, 24, 39, 39,
     28, 11, 12, 5, 0, 27, 17, 9, 1, 6, 24, 26, 14, 35, 21, 3, 0, 40, 37, 19,
     1, 28, 32, 9, 10, 33, 9, 33, 11, 9, 27, 1, 30, 38, 4, 17, 0, 34, 31, 38,
     36, 0, 29, 35, 23, 8, 9, 28, 7, 1, 37, 17, 27, 4, 19, 15, 38, 6, 36, 6,
     32, 17, 3, 32, 12, 39, 34, 30, 34, 22, 1, 2, 2, 10, 34, 29, 18, 16, 30,
     15, 36, 26, 8, 33, 4, 26, 24, 5, 20, 32, 23, 4, 11, 13, 33, 0, 36, 36, 31,
     36, 1, 21, 36, 37, 36, 21, 8, 5, 21, 14, 39, 32, 11, 27, 16, 2, 7, 38, 23,
     28, 11, 26, 3, 15, 2, 38, 38, 21, 22, 35, 26, 13, 41, 3, 24, 16, 19, 25,
     18, 10, 22, 38, 28, 32, 40, 31, 33, 34, 41, 26, 2, 18, 6, 26, 34, 33, 3,
     1, 35, 37, 11, 27, 41, 34, 0, 20, 41, 18, 16, 33, 17, 18, 25, 33, 16, 27,
     9, 11, 2, 20, 9, 22, 35, 32, 5, 26, 14, 22, 17, 16, 0, 27, 27, 19, 33, 31,
     39, 5, 2, 15, 28, 30, 30, 18, 15, 22, 37, 31, 6, 1, 8, 18, 30, 17, 37, 33,
     22, 13, 12, 23, 34, 16, 34, 7, 31, 25, 7, 32, 10, 0, 12, 36, 11, 13, 19,
     33, 15, 36, 16, 16, 18, 31, 10, 12, 26, 31, 37, 16, 24, 39, 1, 33, 19, 32,
     0, 4, 7, 14, 25, 27, 18, 29, 27, 19, 36, 33, 17, 25, 35, 19, 13, 1, 10,
     10, 10, 0, 5, 40, 9, 20, 0, 36, 37, 18, 1, 5, 31, 7, 10, 29, 38, 41, 21,
     39, 21, 20, 28, 30, 15, 22, 35, 21, 11, 34, 25, 8, 21, 5, 20, 26, 2, 23,
     1, 32, 3, 7, 0, 25, 18, 14, 39, 0, 28, 30, 30, 21, 37, 4, 20, 30, 40, 5,
     35, 36, 6, 28, 15, 37, 19, 26, 6, 9, 12, 38, 32, 30, 16, 30, 19, 34, 34,
     36, 21, 0, 40, 17, 7, 37, 33, 41, 38, 2, 32, 9, 26, 30, 26, 8, 21, 41, 29,
     41, 1, 2, 32, 11, 10, 30, 19, 11, 1, 5, 7, 17, 22, 0, 3, 24, 10, 3, 1, 18,
     1, 17, 5, 26, 37, 16, 12, 18, 7, 14, 23, 22, 4, 4, 31, 34, 16, 0, 12, 24,
     19, 7, 3, 20, 29, 3, 8, 40, 35, 30, 20, 20, 7, 28, 8, 12, 21, 8, 22, 18,
     37, 9, 6, 0, 24, 20, 0, 17, 26, 23, 3, 32, 26, 11, 14, 17, 4, 12, 26, 2,
     34, 13, 29, 1, 32, 22, 33, 34, 28, 20, 6, 31, 25, 24, 7, 15, 29, 5, 39,
     20, 3, 7, 41, 8, 31, 17, 33, 10, 36, 4, 8, 5, 32, 4, 37, 39, 15, 23, 35,
     36, 7, 36, 28, 15, 18, 31, 25, 8, 39, 35, 24, 36, 12, 32, 16, 41, 5, 21,
     29, 3, 20, 12, 23, 28, 9, 13, 15, 25, 27, 13, 10, 12, 25, 22, 19, 11, 32,
     22, 6, 20, 40, 32, 0, 30, 5, 15, 0, 16, 6, 24, 27, 6, 11, 41, 1, 26, 29,
     24, 18, 30, 21, 11, 37, 12, 27, 28, 38, 22, 23, 18, 41, 19, 39, 12, 7, 7,
     0, 10, 27, 12, 14, 22, 16, 4, 0, 23, 32, 11, 22, 9, 18, 26, 15, 36, 40, 3,
     28, 11, 37, 39, 32, 18, 39, 2, 5, 7, 23, 14, 18, 26, 39, 37, 16, 34, 28,
     31, 5, 26, 11, 2, 31, 8, 1, 41, 20, 19, 27, 1, 5, 7, 19, 2, 5, 0, 29, 10,
     0, 6, 31, 25, 13, 1, 31, 33, 13, 37, 33, 0, 21, 33, 9, 27, 40, 34, 18, 5,
     14, 36, 13, 25, 35, 20, 28, 11, 0, 41, 40, 21, 13, 26, 38, 18, 10, 26, 11,
     14, 37, 6, 36, 10, 28, 11, 16, 28, 5, 21, 2, 29, 11, 24, 18, 23, 41, 0,
     31, 36, 33, 8, 2, 0, 14, 20, 29, 35, 20, 15, 27, 27, 24, 2, 20, 26, 2, 41,
     13, 21, 17, 33, 23, 6, 1, 24, 16, 27, 38, 18, 41, 27, 21, 22, 34, 34, 12,
     9, 11, 16, 14, 36, 38, 29, 36, 20, 0, 23, 4, 8, 39, 37, 13, 17, 8, 7, 35,
     36, 41, 19, 26, 0, 15, 27, 11, 10, 2, 22, 18, 24, 13, 23, 26, 28, 32, 20,
     21, 3, 30, 19, 34, 29, 23, 0, 22, 41, 39, 11, 36, 39, 33, 34, 9, 17, 1,
     25, 19, 8, 28, 1, 35, 18, 8, 9, 4, 12, 24, 6, 39, 36, 34, 0, 21, 2, 19,
     20, 12, 36, 6, 30, 33, 32, 40, 15, 22, 8, 27, 3, 18, 39, 22, 6, 20, 9, 17,
     26, 29, 36, 13, 24, 36, 41, 25, 25, 7, 38, 36, 24, 24, 12, 39, 25, 10, 28,
     38, 41, 13, 4, 39, 12, 8, 41, 40, 19, 30, 2, 12, 13, 25, 2, 41, 31, 18,
     25, 4, 18, 31, 23, 22, 12, 37, 28, 22, 32, 9, 4, 31, 36, 32, 28, 23, 17,
     5, 34, 26, 18, 23, 29, 23, 12, 15, 24, 28, 33, 29, 34, 35, 6, 26, 2, 20,
     3, 18, 8, 2, 25, 11, 36, 3, 40, 8, 28, 9, 27, 20, 13, 25, 25, 34, 13, 6,
     29, 2, 10, 19, 24, 2, 29, 40, 32, 2, 39, 27, 22, 19, 4, 28, 16, 17, 26,
     38, 22, 2, 23, 30, 28, 11, 27, 6, 18, 25, 22, 5, 34, 32, 35, 2, 40, 13,
     10, 28, 27, 28, 18, 36, 8, 24, 28, 19, 1, 35, 25, 11, 27, 0, 41, 7, 41,
     24, 36, 20, 26, 10, 17, 41, 39, 26, 35, 4, 11, 28, 23, 31, 31, 37, 40, 28,
     4, 24, 31, 0, 40, 20, 8, 20, 30, 39, 15, 30, 40, 37, 10, 10, 13, 31, 32,
     10, 14, 39, 27, 10, 32, 14, 40, 34, 35, 35, 4, 1, 1, 38, 7, 15, 34, 6, 25,
     41, 22, 34, 24, 41, 39, 39, 41, 0, 15, 40, 41, 21, 16, 1, 25, 33, 33, 12,
     13, 6, 40, 2, 10, 28, 41, 5, 40, 25, 19, 14, 11, 34, 25, 41, 41, 40, 23,
     25, 0, 29, 36, 37, 29, 0, 2, 28, 34, 6, 41, 38, 31, 39, 26, 11, 2, 13, 1,
     9, 20, 41, 11, 0, 36, 5, 2, 23, 14, 25, 7, 29, 17, 35, 5, 36, 37, 20, 24,
     8, 14, 17, 7, 35, 30, 26, 30, 2, 7, 12, 18, 25, 19, 27, 19, 1, 1, 37, 18,
     27, 10, 24, 16, 37, 21, 2, 24, 9, 1, 16, 34, 16, 34, 2, 36, 36, 31, 39,
     20, 7, 12, 6, 10, 31, 14, 30, 40, 22, 13, 11, 36, 36, 20, 11, 13, 5, 14,
     29, 3, 5, 0, 6, 34, 27, 8, 19, 36, 14, 30, 30, 7, 29, 7, 1, 34, 24, 26,
     32, 37, 4, 34, 27, 36, 37, 7, 22, 28, 28, 31, 9, 31, 30, 41, 24, 15, 15,
     1, 8, 28, 14, 6, 16, 34, 38, 22, 31, 29, 35, 15, 3, 2, 10, 40, 10, 39, 41,
     11, 0, 3, 10, 9, 22, 22, 19, 10, 5, 0, 41, 3, 2, 7, 8, 14, 0, 6, 26, 33,
     30, 28, 33, 22, 16, 31, 32, 29, 38, 8, 19, 29, 33, 3, 34, 17, 19, 32, 25,
     0, 3, 22, 35, 16, 41, 12, 37, 9, 0, 40, 29, 25, 33, 13, 6, 40, 1, 20, 33,
     36, 28, 36, 21, 35, 1, 6, 31, 30, 3, 24, 27, 7, 9, 17, 38, 15, 10, 10, 37,
     13, 1, 15, 26, 29, 1, 10, 2, 36, 18, 1, 2, 18, 15, 36, 40, 26, 12, 40, 39,
     22, 13, 38, 36, 5, 8, 30, 17, 20, 18, 23, 25, 26, 41, 21, 30, 35, 0, 35,
     11, 13, 21, 21, 16, 7, 16, 39, 7, 15, 12, 41, 29, 23, 23, 28, 35, 38, 16,
     15, 37, 20, 12, 20, 8, 37, 18, 31, 31, 5, 28, 24, 39, 0, 17, 25, 22, 1, 1,
     14, 24, 29, 31, 11, 37, 21, 24, 9, 28, 5, 25, 14, 3, 14, 6, 26, 21, 14,
     25, 10, 28, 24, 36, 13, 37, 12, 38, 25, 2, 13, 35, 7, 3, 8, 36, 30, 18,
     30, 7, 19, 15, 16, 39, 7, 1, 17, 9, 1, 3, 34, 24, 33, 39, 28, 11, 4, 3,
     28, 13, 15, 35, 32, 28, 29, 25, 29, 34, 14, 20, 31, 28, 40, 26, 18, 22, 5,
     38, 8, 24, 15, 6, 9, 20, 18, 2, 8, 14, 4, 20, 2, 9, 37, 25, 40, 22, 26,
     38, 12, 18, 12, 33, 12, 41, 26, 7, 38, 19, 5, 31, 20, 36, 1, 18, 5, 15, 5,
     7, 14, 31, 40, 15, 7, 1, 7, 30, 5, 24, 12, 37, 18, 13, 11, 2, 16, 16, 6,
     21, 9, 29, 26, 30, 9, 20, 15, 40, 6, 31, 11, 10, 35, 1, 31, 34, 10, 18,
     23, 23, 17, 8, 13, 27, 18, 34, 20, 10, 8, 12, 18, 9, 4, 18, 8, 13, 36, 37,
     22, 7, 4, 25, 37, 4, 21, 22, 41, 8, 14, 18, 33, 14, 21, 6, 41, 10, 1, 31,
     7, 13, 35, 30, 30, 20, 7, 40, 31, 11, 4, 30, 17, 4, 22, 37, 18, 4, 35, 4,
     29, 10, 34, 8, 20, 17, 33, 0, 1, 35, 7, 0, 12, 11, 15, 7, 32, 16, 14, 33,
     27, 17, 28, 0, 35, 30, 13, 19, 22, 36, 29, 8, 8, 6, 20, 10, 34, 25, 12,
     32, 13, 36, 32, 28, 2, 21, 11, 31, 13, 32, 24, 34, 34, 17, 27, 22, 31, 23,
     2, 34, 37, 13, 21, 15, 13, 28, 33, 37, 6, 12, 34, 14, 5, 9, 2, 8, 34, 8,
     25, 31, 38, 31, 28, 34, 35, 41, 0, 6, 27, 36, 26, 5, 28, 5, 34, 32, 8, 1,
     35, 12, 36, 12, 30, 22, 7, 41, 41, 34, 37, 31, 14, 30, 12, 27, 26, 19, 37,
     36, 9, 30, 20, 5, 40, 34, 24, 20, 21, 3, 40, 19, 39, 35, 8, 39, 38, 5, 8,
     34, 12, 23, 17, 1, 0, 37, 14, 39, 31, 41, 13, 24, 27, 31, 31, 0, 4, 6, 32,
     10, 29, 38, 27, 24, 16, 6, 41, 34, 21, 25, 2, 6, 15, 6, 19, 13, 14, 23, 1,
     15, 33, 4, 30, 20, 10, 2, 39, 39, 38, 0, 25, 8, 33, 9, 11, 32, 29, 23, 23,
     33, 15, 19, 17, 17, 24, 7, 6, 24, 23, 17, 38, 38, 2, 19, 25, 28, 32, 32,
     16, 0, 36, 8, 3, 18, 16, 3, 41, 11, 4, 11, 8, 25, 4, 27, 18, 5, 37, 6, 9,
     40, 22, 11, 17, 27, 36, 16, 16, 31, 31, 31, 40, 21, 6, 21, 2, 9, 0, 8, 3,
     32, 0, 6, 41, 5, 40, 13, 25, 8, 41, 14, 10, 40, 29, 4, 0, 22, 22, 15, 3,
     24, 22, 20, 11, 20, 30, 23, 22, 33, 30, 16, 12, 3, 10, 13, 2, 24, 38, 5,
     24, 36, 26, 17, 8, 32, 19, 32, 3, 31, 34, 11, 16, 29, 3, 11, 31, 3, 3, 25,
     29, 8, 30, 25, 28, 28, 9, 22, 15, 35, 28, 41, 1, 32, 0, 25, 2, 37, 7, 37,
     36, 5, 4, 17, 13, 29, 29, 28, 23, 6, 16, 36, 36, 11, 16, 38, 6, 25, 18,
     40, 38, 14, 8, 29, 8, 10, 40, 18, 31, 11, 19, 33, 31, 12, 29, 21, 8, 34,
     4, 10, 33, 16, 40, 12, 12, 41, 35, 39, 1, 41, 36, 4, 38, 22, 33, 21, 13,
     14, 40, 23, 12, 17, 30, 19, 34, 24, 0, 28, 14, 33, 23, 24, 2, 3, 38, 30,
     40, 30, 28, 40, 18, 33, 16, 5, 28, 32, 15, 39, 8, 16, 22, 20, 25, 38, 29,
     30, 22, 38, 19, 11, 2, 19, 8, 4, 23, 38, 23, 24, 10, 0, 5, 3, 34, 12, 28,
     6, 30, 14, 29, 28, 40, 1, 36, 3, 40, 19, 23, 26, 39, 18, 28, 11, 24, 22,
     31, 23, 6, 7, 26, 21, 9, 6, 27, 18, 38, 3, 38, 36, 25, 36, 41, 6, 39, 8,
     34, 22, 15, 1, 10, 18, 37, 38, 36, 19, 33, 29, 37, 38, 16, 5, 15, 10, 28,
     24, 38, 1, 16, 23, 18, 4, 27, 13, 8, 2, 19, 2, 20, 3, 5, 16, 6, 21, 39,
     23, 8, 17, 19, 36, 5, 8, 30, 30, 40, 12, 22, 12, 5, 25, 21, 25, 3, 15, 1,
     31, 41, 6, 1, 29, 32, 17, 37, 21, 11, 0, 1, 21, 26, 13, 18, 20, 40, 24,
     33, 22, 41, 11, 34, 31, 20, 22, 10, 29, 34, 27, 14, 6, 6, 6, 25, 0, 29,
     41, 22, 29, 14, 3, 5, 12, 30, 32, 24, 35, 23, 30, 15, 5, 12, 37, 14, 20,
     21, 21, 17, 28, 17, 17, 31, 22, 13, 9, 4, 11, 11, 35, 25, 37, 14, 27, 34,
     8, 11, 29, 41, 23, 20, 20, 23, 30, 31, 14, 23, 18, 11, 37, 13, 31, 35, 23,
     20, 25, 5, 21, 24, 21, 33, 15, 26, 19, 29, 39, 12, 18, 2, 30, 3, 25, 19,
     37, 20, 7, 31, 25, 7, 2, 12, 39, 35, 10, 19, 34, 1, 30, 36, 9, 8, 21, 11,
     21, 15, 2, 9, 35, 36, 2, 7, 31, 22, 11, 8, 32, 38, 15, 30, 2, 36, 16, 22,
     21, 36, 36, 5, 15, 22, 25, 23, 32, 14, 9, 33, 7, 40, 19, 32, 36, 40, 23,
     29, 24, 15, 5, 4, 2, 37, 12, 13, 9, 38, 9, 23, 33, 40, 16, 2, 32, 39, 2,
     16, 3, 25, 16, 21, 29, 27, 17, 18, 3, 24, 41, 34, 19, 28, 3, 8, 18, 36, 7,
     13, 31, 27, 2, 36, 36, 14, 7, 7, 11, 12, 0, 12, 13, 26, 29, 4, 3, 5, 22,
     22, 7, 8, 29, 13, 20, 39, 23, 14, 29, 3, 18, 7, 41, 15, 6, 25, 31, 29, 21,
     5, 27, 1, 33, 30, 28, 40, 16, 29, 12, 28, 33, 1, 16, 19, 29, 37, 25, 37,
     10, 37, 12, 22, 9, 31, 32, 24, 13, 25, 4, 37, 10, 32, 1, 33, 12, 12, 38,
     18, 0, 36, 12, 18, 12, 24, 38, 22, 36, 34, 34, 2, 32, 14, 13, 12, 30, 28,
     34, 7, 32, 26, 18, 34, 37, 31, 28, 30, 29, 11, 11, 4, 21, 38, 31, 4, 35,
     13, 22, 7, 25, 34, 33, 14, 1, 36, 7, 17, 18, 1, 13, 29, 6, 22, 37, 38, 4,
     15, 35, 37, 23, 8, 15, 19, 15, 16, 4, 36, 38, 0, 12, 6, 27, 30, 17, 0, 22,
     14, 0, 13, 17, 21, 36, 8, 5, 25, 39, 18, 19, 8, 8, 24, 21, 37, 17, 9, 5,
     29, 36, 6, 26, 20, 38, 9, 22, 3, 10, 19, 2, 18, 35, 29, 7, 14, 10, 20, 2,
     35, 41, 5, 26, 27, 37, 0, 20, 0, 9, 29, 26, 20, 36, 6, 38, 36, 14, 1, 28,
     10, 20, 15, 39, 41, 29, 14, 32, 33, 41, 24, 40, 12, 22, 14, 25, 7, 19, 10,
     39, 24, 35, 33, 8, 9, 38, 16, 25, 34, 38, 39, 24, 37, 21, 26, 33, 29, 33,
     18, 9, 17, 4, 22, 28, 32, 32, 22, 37, 28, 11, 18, 29, 4, 36, 37, 36, 34,
     16, 17, 38, 28, 3, 35, 9, 24, 23, 13, 30, 4, 4, 26, 41, 16, 2, 37, 24, 25,
     29, 19, 34, 32, 25, 1, 12, 40, 35, 24, 33, 16, 19, 8, 23, 27, 35, 15, 32,
     29, 24, 16, 33, 6, 36, 29, 27, 29, 16, 31, 12, 15, 25, 16, 11, 25, 19, 35,
     28, 19, 18, 3, 36, 35, 37, 2, 11, 36, 5, 32, 15, 3, 13, 20, 2, 2, 21, 32,
     2, 35, 26, 2, 23, 21, 22, 3, 3, 6, 19, 15, 14, 4, 22, 35, 34, 20, 33, 39,
     23, 26, 35, 3, 26, 25, 24, 19, 31, 37, 19, 12, 7, 7, 12, 11, 24, 27, 37,
     13, 24, 36, 29, 33, 40, 28, 13, 17, 0, 9, 32, 33, 29, 38, 41, 35, 16, 38,
     37, 12, 32, 1, 38, 30, 1, 24, 26, 21, 26, 35, 4, 26, 36, 37, 29, 17, 29,
     36, 28, 26, 27, 5, 3, 36, 31, 15, 25, 38, 1, 5, 13, 37, 18, 25, 17, 30,
     17, 16, 20, 27, 3, 10, 1, 10, 31, 1, 24, 16, 20, 19, 15, 9, 28, 8, 0, 1,
     37, 5, 33, 0, 26, 5, 21, 18, 31, 32, 35, 19, 41, 14, 26, 10, 26, 34, 19,
     41, 1, 32, 17, 34, 8, 13, 8, 4, 13, 19, 6, 32, 11, 15, 26, 34, 39, 14, 23,
     24, 17, 29, 30, 36, 9, 34, 34, 28, 21, 33, 9, 26, 3, 25, 31, 13, 13, 33,
     13, 6, 4, 36, 17, 15, 33, 39, 33, 26, 0, 15, 22, 20, 21, 0, 41, 24, 27,
     24, 10, 28, 9, 16, 21, 32, 17, 13, 40, 9, 15, 21, 18, 20, 14, 37, 36, 12,
     34, 4, 10, 14, 32, 31, 26, 41, 0, 33, 8, 21, 31, 17, 1, 17, 11, 21, 1, 14,
     10, 15, 24, 1, 19, 31, 11, 29, 40, 28, 5, 31, 4, 7, 33, 18, 29, 31, 18,
     18, 4, 12, 12, 40, 6, 20, 21, 19, 18, 30, 13, 33, 20, 40, 11, 5, 31, 6, 9,
     24, 34, 6, 37, 15, 26, 22, 16, 11, 20, 24, 13, 2, 5, 3, 0, 9, 20, 33, 0,
     6, 29, 38, 17, 40, 39, 4, 27, 30, 37, 18, 1, 41, 39, 24, 29, 28, 30, 23,
     27, 34, 38, 1, 12, 35, 34, 0, 24, 13, 41, 11, 37, 14, 41, 30, 6, 4, 33,
     35, 23, 16, 22, 18, 22, 1, 5, 18, 35, 3, 30, 26, 15, 8, 32, 20, 37, 5, 16,
     3, 14, 5, 33, 29, 19, 22, 12, 27, 20, 38, 22, 6, 8, 5, 20, 40, 18, 1, 8,
     9, 9, 21, 34, 5, 15, 20, 16, 25, 41, 24, 19, 17, 40, 26, 32, 5, 36, 30, 6,
     20, 17, 0, 4, 35, 1, 20, 30, 28, 14, 10, 32, 29, 12, 7, 12, 39, 13, 10,
     29, 19, 29, 28, 5, 4, 10, 38, 8, 21, 6, 34, 11, 7, 9, 17, 31, 13, 34, 22,
     37, 30, 13, 16, 12, 29, 27, 21, 28, 39, 21, 39, 5, 18, 34, 40, 31, 9, 16,
     37, 12, 18, 38, 16, 0, 14, 1, 3, 30, 38, 15, 19, 20, 17, 10, 40, 35, 28,
     4, 40, 38, 16, 0, 34, 15, 24, 28, 15, 36, 21, 23, 41, 16, 17, 2, 0, 20,
     30, 3, 32, 3, 27, 25, 20, 2, 2, 5, 19, 12, 40, 8, 30, 15, 35, 13, 23, 28,
     7, 5, 12, 1, 29, 40, 27, 39, 2, 30, 18, 20, 37, 0, 35, 14, 0, 35, 33, 19,
     35, 0, 26, 34, 5, 11, 30, 1, 19, 25, 16, 1, 19, 23, 23, 39, 14, 36, 31, 9,
     27, 28, 20, 2, 10, 19, 4, 28, 6, 36, 15, 29, 12, 26, 26, 23, 22, 30, 27,
     3, 19, 22, 14, 31, 7, 9, 12, 35, 7, 15, 34, 41, 30, 8, 29, 11, 12, 7, 33,
     1, 19, 28, 4, 4, 21, 15, 38, 1, 41, 36, 20, 24, 32, 24, 24, 6, 6, 20, 25,
     9, 2, 24, 2, 21, 6, 14, 24, 28, 29, 29, 29, 20, 7, 1, 32, 21, 26, 0, 1, 0,
     24, 32, 2, 0, 34, 5, 6, 41, 32, 38, 22, 29, 40, 41, 13, 24, 26, 41, 31, 8,
     1, 0, 19, 31, 20, 24, 22, 37, 26, 37, 36, 13, 34, 40, 10, 29, 32, 4, 26,
     1, 9, 4, 29, 31, 18, 37, 11, 8, 30, 39, 10, 36, 32, 8, 31, 29, 40, 22, 8,
     37, 27, 32, 28, 34, 28, 24, 12, 22, 38, 1, 38, 14, 24, 16, 10, 2, 8, 14,
     39, 26, 12, 15, 10, 1, 1, 20, 3, 31, 23, 28, 9, 38, 29, 41, 7, 17, 40, 5,
     31, 0, 32, 40, 38, 4, 28, 8, 20, 33, 6, 21, 31, 23, 39, 27, 7, 1, 4, 41,
     9, 3, 31, 0, 37, 20, 29, 5, 32, 30, 15, 35, 7, 30, 22, 15, 23, 35, 0, 19,
     27, 4, 34, 10, 40, 22, 39, 28, 14, 30, 21, 3, 16, 24, 0, 7, 33, 33, 34,
     38, 40, 5, 36, 28, 3, 32, 20, 13, 37, 10, 24, 9, 1, 8, 8, 5, 38, 14, 22,
     40, 35, 40, 38, 30, 16, 24, 41, 15, 29, 20, 15, 13, 4, 21, 19, 18, 0, 3,
     25, 38, 20, 36, 34, 13, 26, 8, 37, 39, 31, 21, 1, 21, 24, 27, 4, 6, 24,
     25, 26, 31, 3, 28, 39, 27, 4, 0, 35, 38, 12, 32, 31, 35, 10, 18, 38, 36,
     11, 26, 26, 26, 31, 40, 6, 0, 13, 37, 20, 31, 38, 0, 40, 8, 6, 34, 29, 10,
     8, 16, 33, 4, 2, 28, 0, 26, 20, 7, 15, 11, 5, 27, 3, 41, 14, 33, 31, 32,
     34, 12, 18, 18, 1, 8, 27, 13, 17, 24, 22, 0, 11, 23, 4, 5, 5, 1, 5, 29, 6,
     3, 26, 33, 21, 35, 7, 29, 21, 35, 19, 13, 20, 0, 7, 40, 14, 29, 25, 39, 4,
     11, 37, 18, 13, 33, 38, 29, 16, 32, 12, 32, 19, 18, 15, 35, 14, 41, 10,
     33, 21, 40, 41, 41, 32, 18, 35, 15, 34, 38, 3, 3, 28, 19, 35, 36, 13, 27,
     5, 9, 10, 6, 31, 41, 19, 3, 36, 25, 21, 20, 28, 18, 4, 2, 39, 12, 34, 6,
     9, 0, 37, 10, 3, 22, 13, 6, 3, 33, 36, 3, 12, 41, 40, 29, 8, 28, 6, 39,
     31, 26, 34, 41, 24, 17, 23, 7, 1, 18, 7, 16, 27, 3, 11, 21, 27, 24, 25,
     36, 2, 27, 5, 5, 4, 19, 21, 11, 34, 40, 13, 17, 30, 38, 26, 25, 5, 11, 35,
     7, 34, 38, 21, 12, 36, 12, 37, 0, 33, 9, 29, 0, 24, 13, 5, 26, 35, 17, 25,
     21, 33, 10, 10, 7, 20, 38, 1, 25, 21, 41, 32, 19, 32, 18, 38, 1, 4, 0, 30,
     36, 16, 33, 17, 32, 3, 32, 13, 38, 4, 25, 29, 27, 20, 38, 5, 13, 15, 29,
     31, 5, 6, 34, 19, 12, 41, 8, 19, 0, 17, 26, 39, 27, 17, 3, 8, 30, 19, 9,
     30, 38, 19, 28, 16, 16, 8, 28, 31, 36, 24, 38, 28, 26, 35, 16, 35, 12, 40,
     40, 1, 17, 24, 3, 33, 17, 33, 4, 19, 16, 37, 33, 39, 37, 34, 12, 27, 34,
     32, 11, 11, 11, 38, 33, 26, 41, 39, 5, 40, 30, 0, 36, 1, 13, 2, 3, 22, 6,
     21, 10, 34, 2, 14, 22, 28, 15, 30, 1, 39, 23, 6, 7, 41, 2, 40, 18, 23, 22,
     8, 26, 11, 25, 20, 36, 5, 18, 15, 35, 20, 9, 5, 30, 34, 19, 23, 32, 24,
     13, 41, 30, 4, 5, 0, 2, 18, 11, 29, 35, 25, 0, 10, 40, 8, 34, 41, 17, 39,
     23, 15, 12, 4, 38, 26, 4, 30, 41, 24, 41, 38, 28, 20, 25, 3, 36, 2, 32,
     27, 31, 4, 4, 16, 34, 26, 2, 20, 12, 1, 12, 35, 9, 28, 41, 28, 39, 23, 4,
     2, 13, 13, 29, 41, 30, 19, 0, 1, 14, 4, 28, 24, 6, 17, 36, 30, 25, 30, 2,
     23, 2, 23, 14, 14, 22, 1, 25, 32, 36, 31, 39, 29, 18, 7, 26, 10, 21, 40,
     28, 35, 23, 32, 28, 34, 26, 23, 21, 19, 41, 11, 11, 34, 35, 14, 5, 16, 33,
     1, 6, 41, 20, 20, 34, 8, 18, 8, 21, 27, 2, 34, 21, 10, 6, 12, 19, 0, 21,
     40, 20, 18, 35, 28, 6, 34, 1, 13, 35, 8, 18, 28, 31, 37, 9, 32, 30, 27,
     39, 3, 18, 23, 36, 29, 21, 21, 7, 26, 32, 37, 35, 4, 33, 16, 38, 35, 39,
     31, 32, 0, 2, 38, 19, 12, 13, 9, 1, 3, 31, 38, 15, 13, 21, 7, 11, 19, 32,
     32, 3, 8, 3, 36, 7, 27, 3, 31, 9, 28, 36, 10, 1, 23, 11, 30, 14, 0, 29,
     34, 41, 32, 25, 5, 1, 18, 19, 15, 6, 30, 36, 3, 35, 6, 16, 26, 27, 30, 8,
     15, 28, 24, 21, 39, 8, 33, 40, 0, 36, 34, 14, 13, 22, 39, 5, 33, 26, 3,
     40, 10, 5, 35, 18, 17, 11, 1, 20, 11, 17, 31, 33, 22, 15, 11, 2, 3, 39,
     16, 34, 18, 7, 34, 30, 18, 18, 40, 21, 20, 13, 35, 7, 6, 16, 28, 38, 30,
     28, 30, 13, 27, 7, 26, 6, 23, 12, 14, 22, 12, 5, 40, 15, 7, 14, 18, 40,
     28, 35, 39, 16, 25, 25, 5, 22, 22, 0, 7, 31, 34, 33, 4, 37, 35, 21, 0, 39,
     23, 35, 0, 1, 41, 30, 0, 23, 28, 16, 33, 10, 27, 22, 22, 2, 20, 41, 39, 3,
     32, 26, 11, 26, 8, 24, 33, 37, 18, 9, 31, 21, 18, 9, 33, 28, 16, 38, 32,
     15, 33, 12, 19, 0, 3, 25, 20, 33, 24, 31, 27, 4, 4, 31, 13, 29, 6, 26, 35,
     30, 32, 29, 16, 14, 6, 5, 4, 5, 2, 21, 37, 29, 2, 26, 18, 6, 36, 5, 27,
     17, 20, 26, 11, 27, 40, 14, 22, 21, 3, 20, 9, 36, 36, 12, 9, 25, 41, 35,
     2, 25, 10, 13, 24, 27, 12, 8, 36, 16, 25, 17, 28, 35, 30, 11, 8, 21, 3, 3,
     22, 12, 39, 41, 9, 35, 31, 5, 27, 34, 25, 10, 41, 31, 21, 30, 2, 37, 16,
     14, 6, 39, 2, 32, 34, 20, 13, 16, 19, 34, 36, 30, 4, 3, 14, 28, 37, 0, 20,
     26, 7, 6, 17, 5, 12, 3, 4, 8, 34, 24, 8, 13, 12, 38, 29, 23, 5, 26, 25,
     33, 4, 34, 35, 41, 37, 24, 17, 10, 36, 29, 34, 15, 14, 41, 3, 38, 41, 20,
     32, 40, 32, 27, 27, 36, 31, 13, 10, 30, 3, 7, 0, 32, 13, 39, 34, 37, 25,
     8, 34, 26, 36, 1, 33, 15, 11, 34, 17, 38, 13, 41, 13, 2, 19, 17, 4, 17,
     22, 22, 4, 38, 17, 13, 6, 32, 12, 40, 34, 3, 25, 11, 23, 23, 36, 29, 3,
     18, 34, 17, 1, 38, 34, 12, 24, 39, 36, 15, 15, 29, 6, 35, 6, 0, 13, 30,
     36, 28, 0, 9, 9, 39, 4, 30, 38, 14, 28, 5, 35, 22, 41, 19, 22, 3, 31, 22,
     31, 16, 26, 24, 18, 2, 15, 5, 1, 21, 11, 8, 24, 21, 14, 29, 22, 12, 38, 8,
     26, 8, 4, 21, 38, 18, 31, 31, 9, 2, 14, 6, 17, 9, 31, 38, 13, 32, 0, 37,
     22, 31, 18, 1, 27, 24, 35, 4, 32, 20, 30, 28, 39, 23, 21, 17, 39, 28, 6,
     40, 27, 4, 8, 36, 4, 1, 16, 1, 15, 18, 40, 41, 1, 9, 38, 6, 23, 22, 39,
     39, 10, 34, 27, 9, 27, 2, 41, 9, 22, 33, 39, 37, 24, 21, 40, 18, 30, 24,
     19, 7, 35, 14, 7, 25, 13, 30, 15, 33, 6, 18, 6, 23, 15, 27, 26, 7, 1, 36,
     11, 28, 37, 6, 35, 12, 38, 16, 21, 28, 22, 19, 32, 29, 29, 22, 31, 41, 1,
     23, 13, 13, 31, 17, 22, 18, 8, 19, 14, 5, 27, 12, 20, 31, 36, 13, 16, 30,
     15, 21, 9, 21, 16, 15, 36, 6, 31, 1, 6, 0, 16, 4, 10, 22, 21, 21, 15, 21,
     1, 24, 36, 16, 17, 37, 1, 39, 12, 25, 35, 28, 25, 29, 40, 15, 26, 24, 20,
     29, 29, 6, 26, 33, 9, 0, 23, 33, 20, 41, 27, 13, 32, 17, 1, 13, 31, 21,
     30, 2, 3, 16, 4, 14, 28, 38, 13, 40, 39, 26, 13, 12, 35, 26, 36, 4, 38,
     28, 38, 11, 38, 37, 19, 28, 31, 20, 17, 31, 20, 22, 15, 38, 30, 17, 28,
     19, 34, 18, 19, 11, 26, 7, 26, 7, 29, 12, 41, 34, 31, 26, 13, 13, 26, 36,
     1, 16, 36, 5, 28, 5, 12, 22, 11, 9, 36, 11, 12, 39, 20, 9, 17, 32, 21, 41,
     25, 7, 21, 3, 0, 20, 25, 8, 20, 29, 5, 39, 12, 25, 38, 36, 37, 34, 0, 26,
     31, 10, 9, 35, 32, 22, 16, 36, 34, 35, 31, 35, 36, 37, 14, 37, 0, 39, 26,
     7, 14, 15, 18, 10, 16, 3, 31, 35, 23, 18, 31, 21, 30, 6, 34, 25, 32, 35,
     19, 24, 20, 35, 25, 23, 4, 6, 5, 14, 1, 25, 30, 32, 39, 18, 30, 17, 25,
     27, 26, 41, 33, 26, 5, 40, 13, 13, 4, 26, 30, 41, 27, 9, 34, 34, 37, 10,
     16, 23, 9, 37, 27, 13, 33, 37, 15, 36, 22, 20, 24, 5, 35, 7, 36, 15, 2,
     13, 28, 17, 5, 22, 14, 34, 27, 33, 28, 32, 23, 10, 11, 4, 26, 24, 11, 22,
     6, 39, 19, 34, 4, 20, 22, 36, 5, 29, 26, 18, 1, 10, 9, 38, 17, 6, 11, 36,
     28, 14, 31, 34, 6, 11, 40, 40, 0, 22, 33, 12, 35, 36, 5, 22, 5, 2, 40, 14,
     41, 21, 6, 5, 39, 6, 38, 13, 25, 0, 16, 3, 0, 21, 17, 29, 32, 34, 35, 34,
     7, 27, 22, 31, 35, 9, 23, 1, 24, 39, 39, 32, 20, 18, 39, 5, 8, 21, 31, 4,
     5, 17, 11, 28, 17, 16, 9, 31, 25, 24, 24, 37, 27, 2, 14, 6, 29, 23, 36,
     29, 20, 33, 20, 25, 24, 10, 4, 19, 26, 5, 15, 33, 19, 1, 4, 30, 17, 9, 20,
     36, 5, 5, 27, 6, 28, 25, 41, 10, 15, 9, 26, 13, 26, 6, 35, 33, 8, 37, 4,
     2, 24, 3, 19, 6, 21, 20, 36, 22, 12, 5, 7, 23, 39, 2, 24, 26, 22, 17, 16,
     15, 18, 31, 3, 4, 12, 24, 35, 36, 17, 32, 25, 1, 14, 25, 28, 40, 3, 40,
     17, 20, 39, 24, 10, 19, 37, 19, 27, 36, 12, 23, 38, 17, 8, 5, 2, 13, 0,
     36, 25, 18, 0, 17, 20, 10, 33, 27, 19, 0, 27, 1, 17, 27, 4, 25, 25, 2, 40,
     2, 6, 29, 23, 28, 6, 28, 37, 18, 41, 32, 37, 5, 25, 18, 26, 26, 41, 39,
     16, 7, 10, 7, 31, 5, 31, 32, 10, 10, 0, 2, 18, 20, 40, 18, 37, 19, 11, 30,
     22, 9, 17, 0, 12, 33, 8, 24, 24, 18, 25, 2, 41, 8, 11, 18, 31, 24, 34, 7,
     23, 21, 4, 8, 18, 18, 7, 3, 2, 37, 29, 39, 5, 20, 39, 37, 20, 12, 22, 31,
     9, 8, 17, 9, 21, 17, 0, 23, 25, 21, 20, 8, 12, 24, 1, 21, 34, 31, 38, 7,
     23, 7, 18, 21, 30, 16, 26, 35, 23, 16, 40, 18, 7, 24, 2, 4, 23, 0, 40, 28,
     3, 13, 27, 24, 39, 25, 28, 34, 35, 30, 39, 27, 34, 22, 27, 16, 17, 16, 9,
     37, 20, 24, 41, 19, 1, 34, 14, 14, 13, 30, 35, 8, 27, 40, 21, 25, 3, 22,
     11, 28, 41, 39, 23, 26, 41, 7, 34, 6, 6, 13, 14, 22, 19, 10, 30, 25, 28,
     29, 11, 14, 6, 22, 32, 41, 17, 29, 5, 14, 10, 20, 9, 4, 2, 1, 9, 14, 32,
     36, 41, 1, 9, 21, 35, 16, 19, 38, 17, 2, 12, 12, 0, 32, 7, 27, 15, 26, 4,
     6, 23, 38, 34, 5, 33, 39, 24, 17, 41, 14, 8, 20, 29, 6, 30, 32, 14, 4, 38,
     32, 10, 23, 28, 39, 28, 40, 38, 11, 13, 3, 16, 23, 28, 33, 31, 35, 38, 35,
     24, 36, 21, 8, 2, 36, 10, 14, 37, 34, 28, 40, 33, 33, 10, 33, 7, 36, 38,
     8, 11, 31, 33, 23, 14, 25, 3, 8, 24, 13, 23, 35, 21, 34, 33, 28, 39, 21,
     28, 40, 11, 23, 13, 21, 11, 24, 0, 41, 35, 38, 0, 4, 21, 28, 15, 25, 41,
     20, 26, 5, 12, 25, 22, 39, 4, 17, 17, 24, 36, 28, 23, 33, 40, 3, 13, 13,
     16, 36, 23, 28, 25, 3, 14, 33, 19, 27, 35, 41, 11, 7, 6, 38, 8, 6, 11, 36,
     1, 13, 7, 41, 19, 32, 38, 6, 9, 27, 7, 17, 16, 14, 39, 14, 27, 4, 24, 32,
     30, 17, 8, 34, 29, 7, 37, 31, 14, 0, 34, 20, 29, 40, 28, 20, 18, 32, 14,
     23, 9, 40, 27, 4, 20, 13, 2, 15, 39, 8, 2, 20, 41, 17, 5, 29, 23, 18, 41,
     30, 41, 29, 11, 0, 9, 35, 29, 17, 36, 40, 35, 14, 37, 32, 31, 29, 11, 39,
     26, 24, 38, 21, 28, 6, 23, 14, 28, 10, 14, 8, 22, 3, 34, 36, 1, 10, 15,
     26, 36, 19, 27, 35, 0, 3, 15, 32, 16, 21, 20, 40, 6, 17, 14, 33, 13, 28,
     4, 2, 25, 13, 0, 37, 5, 8, 13, 9, 7, 4, 38, 0, 4, 26, 10, 38, 22, 31, 0,
     16, 15, 25, 38, 16, 6, 17, 19, 23, 4, 11, 10, 16, 6, 20, 5, 28, 34, 6, 27,
     15, 9, 33, 7, 34, 21, 18, 28, 27, 22, 35, 7, 22, 9, 22, 32, 40, 38, 9, 9,
     16, 38, 36, 35, 23, 8, 1, 28, 11, 16, 0, 35, 0, 26, 29, 31, 12, 32, 2, 16,
     16, 6, 20, 36, 23, 15, 21, 38, 6, 35, 13, 20, 3, 36, 27, 35, 5, 16, 11,
     19, 28, 39, 20, 5, 18, 30, 5, 21, 29, 0, 0, 33, 27, 29, 40, 32, 23, 37,
     41, 37, 39, 8, 40, 8, 17, 0, 9, 7, 1, 7, 16, 2, 29, 28, 29, 11, 34, 18,
     26, 37, 39, 32, 10, 22, 4, 22, 30, 39, 8, 32, 14, 8, 22, 23, 20, 36, 39,
     8, 39, 35, 38, 29, 21, 18, 21, 33, 29, 22, 36, 33, 10, 40, 37, 30, 29, 28,
     36, 11, 5, 3, 22, 11, 15, 12, 3, 0, 34, 0, 30, 17, 32, 35, 35, 31, 22, 23,
     9, 4, 4, 11, 12, 31, 10, 13, 8, 12, 2, 14, 18, 40, 14, 8, 21, 34, 24, 15,
     24, 40, 11, 19, 10, 30, 23, 12, 25, 17, 27, 2, 3, 8, 2, 29, 3, 34, 32, 27,
     23, 30, 23, 19, 17, 28, 2, 16, 0, 40, 4, 18, 23, 16, 10, 20, 10, 0, 29,
     11, 18, 29, 34, 26, 37, 10, 17, 37, 4, 10, 28, 9, 4, 0, 36, 28, 10, 39,
     22, 33, 4, 30, 11, 40, 2, 11, 11, 29, 22, 37, 20, 12, 25, 25, 37, 38, 18,
     20, 10, 21, 31, 22, 8, 26, 38, 0, 25, 26, 25, 14, 23, 11, 14, 29, 25, 12,
     27, 26, 41, 11, 19, 17, 17, 41, 28, 39, 23, 36, 30, 34, 27, 11, 7, 20, 33,
     10, 21, 11, 18, 13, 41, 9, 5, 19, 23, 41, 8, 3, 17, 10, 13, 28, 3, 25, 41,
     18, 30, 5, 20, 7, 1, 3, 26, 1, 38, 28, 34, 32, 2, 24, 16, 11, 2, 4, 13,
     28, 24, 32, 9, 23, 23, 19, 3, 3, 12, 20, 19, 11, 40, 40, 11, 36, 24, 1, 4,
     7, 34, 0, 16, 5, 27, 32, 24, 7, 36, 35, 19, 36, 16, 11, 28, 19, 3, 12, 7,
     3, 9, 39, 30, 28, 26, 39, 15, 3, 11, 11, 4, 19, 0, 35, 37, 1, 40, 22, 13,
     25, 28, 25, 40, 35, 0, 30, 9, 26, 19, 7, 34, 14, 7, 25, 20, 29, 22, 21,
     39, 8, 2, 26, 12, 40, 28, 7, 15, 14, 36, 0, 24, 23, 26, 6, 15, 15, 31, 19,
     41, 4, 0, 23, 24, 10, 23, 3, 14, 31, 27, 17, 26, 40, 27, 35, 5, 18, 14,
     40, 1, 40, 16, 5, 37, 6, 20, 12, 3, 20, 24, 27, 37, 39, 3, 14, 16, 10, 2,
     24, 26, 27, 6, 36, 13, 32, 8, 19, 25, 29, 40, 15, 17, 40, 9, 6, 28, 11, 5,
     24, 21, 12, 6, 28, 7, 20, 40, 30, 20, 41, 40, 29, 31, 22, 3, 41, 9, 17,
     17, 26, 16, 27, 7, 22, 4, 11, 31, 41, 29, 37, 36, 11, 23, 23, 33, 0, 40,
     8, 19, 14, 29, 36, 27, 38, 22, 41, 0, 14, 6, 40, 1, 11, 7, 5, 11, 7, 16,
     7, 12, 38, 5, 17, 29, 17, 9, 6, 31, 11, 22, 22, 37, 22, 8, 10, 7, 40, 37,
     25, 31, 36, 6, 40, 35, 28, 0, 6, 25, 26, 17, 33, 20, 41, 0, 28, 20, 14,
     27, 39, 10, 21, 13, 7, 9, 24, 17, 4, 29, 38, 12, 3, 23, 16, 22, 6, 0, 14,
     21, 21, 13, 31, 15, 31, 34, 31, 6, 31, 24, 27, 35, 40, 30, 37, 6, 11, 28,
     39, 17, 4, 19, 23, 33, 8, 27, 20, 18, 41, 14, 25, 11, 7, 35, 27, 41, 35,
     29, 39, 30, 22, 25, 0, 34, 22, 20, 0, 41, 0, 23, 16, 29, 32, 33, 2, 21, 3,
     2, 23, 11, 32, 22, 23, 0, 1, 25, 21, 21, 26, 38, 13, 20, 35, 11, 11, 23,
     23, 7, 8, 20, 8, 19, 37, 32, 4, 41, 38, 34, 27, 38, 12, 14, 34, 16, 29,
     29, 17, 7, 3, 8, 2, 26, 14, 16, 20, 31, 37, 25, 13, 31, 20, 1, 14, 0, 8,
     5, 37, 37, 20, 22, 31, 33, 5, 25, 29, 15, 9, 35, 16, 35, 35, 6, 11, 34,
     26, 22, 11, 27, 31, 13, 7, 2, 36, 10, 40, 2, 16, 2, 24, 0, 18, 2, 38, 9,
     29, 17, 25, 19, 32, 9, 1, 11, 17, 2, 8, 12, 28, 3, 11, 7, 10, 28, 24, 7,
     12, 33, 8, 12, 18, 36, 4, 30, 38, 10, 9, 0, 6, 16, 31, 28, 9, 32, 19, 36,
     23, 12, 39, 16, 36, 35, 6, 38, 24, 36, 40, 9, 0, 9, 15, 39, 20, 19, 20,
     18, 4, 35, 41, 33, 4, 38, 12, 18, 3, 25, 23, 40, 31, 37, 30, 25, 27, 18,
     40, 36, 26, 4, 13, 9, 37, 23, 26, 30, 27, 25, 40, 30, 30, 32, 7, 17, 9, 2,
     20, 25, 18, 14, 7, 31, 9, 41, 13, 35, 24, 30, 30, 14, 40, 25, 17, 11, 23,
     19, 0, 19, 9, 14, 9, 10, 13, 14, 33, 7, 39, 36, 12, 41, 23, 2, 29, 38, 33,
     22, 22, 11, 0, 20, 6, 37, 15, 0, 28, 32, 8, 11, 15, 36, 14, 37, 41, 30,
     29, 9, 38, 34, 33, 18, 7, 13, 11, 6, 3, 25, 39, 2, 35, 0, 25, 21, 3, 17,
     10, 2, 25, 11, 16, 11, 27, 12, 13, 39, 19, 41, 30, 21, 10, 31, 38, 27, 21,
     33, 3, 31, 3, 31, 7, 12, 17, 39, 31, 14, 41, 20, 17, 10, 8, 16, 4, 36, 3,
     7, 13, 9, 16, 38, 34, 15, 36, 27, 31, 1, 27, 20, 39, 31, 16, 13, 19, 10,
     38, 0, 24, 7, 5, 17, 4, 35, 8, 21, 39, 0, 25, 33, 21, 22, 11, 39, 20, 14,
     23, 8, 27, 4, 11, 2, 14, 25, 34, 37, 23, 41, 24, 3, 4, 5, 12, 22, 20, 1,
     20, 12, 16, 23, 7, 32, 36, 11, 36, 0, 35, 1, 0, 37, 29, 23, 30, 9, 31, 38,
     2, 14, 25, 39, 34, 15, 3, 34, 5, 1, 20, 25, 29, 11, 20, 18, 36, 10, 32,
     15, 19, 19, 40, 38, 12, 22, 21, 9, 12, 4, 22, 5, 27, 34, 28, 13, 9, 9, 4,
     25, 24, 31, 27, 37, 29, 32, 34, 7, 18, 35, 17, 16, 1, 22, 35, 22, 0, 13,
     17, 21, 1, 8, 16, 5, 16, 23, 21, 3, 41, 27, 4, 23, 24, 15, 36, 36, 32, 25,
     17, 24, 36, 3, 22, 25, 3, 26, 4, 12, 21, 15, 14, 21, 22, 41, 9, 26, 1, 4,
     2, 18, 1, 10, 37, 2, 19, 9, 31, 0, 22, 21, 10, 27, 30, 31, 33, 15, 5, 12,
     36, 28, 40, 37, 13, 17, 30, 4, 18, 10, 15, 12, 25, 2, 2, 9, 5, 2, 39, 18,
     32, 14, 25, 30, 7, 29, 15, 9, 29, 3, 18, 25, 38, 12, 30, 28, 36, 13, 5,
     30, 39, 21, 23, 17, 11, 38, 30, 16, 1, 11, 25, 35, 39, 21, 33, 39, 19, 26,
     29, 25, 29, 21, 21, 15, 33, 7, 37, 34, 28, 25, 13, 6, 18, 21, 40, 29, 39,
     19, 25, 6, 18, 38, 23, 6, 18, 14, 0, 21, 5, 33, 37, 3, 18, 5, 11, 0, 22,
     12, 7, 34, 4, 23, 20, 32, 17, 19, 10, 21, 3, 10, 26, 23, 23, 8, 24, 32,
     32, 8, 5, 4, 31, 28, 38, 40, 32, 16, 5, 13, 9, 2, 20, 15, 14, 38, 18, 7,
     3, 26, 10, 21, 0, 20, 13, 0, 13, 28, 32, 39, 39, 8, 22, 39, 23, 24, 9, 5,
     5, 27, 34, 40, 22, 34, 28, 0, 8, 24, 2, 34, 11, 7, 16, 11, 30, 31, 26, 38,
     9, 2, 28, 34, 21, 23, 39, 40, 33, 21, 6, 3, 13, 32, 21, 13, 38, 2, 15, 40,
     21, 24, 13, 1, 25, 39, 4, 21, 23, 0, 28, 16, 7, 14, 6, 13, 25, 36, 10, 14,
     9, 35, 32, 2, 0, 28, 40, 39, 18, 4, 12, 29, 40, 38, 24, 39, 17, 15, 30, 1,
     32, 30, 2, 33, 7, 0, 33, 13, 17, 34, 22, 25, 36, 36, 27, 19, 0, 31, 18,
     26, 31, 39, 6, 20, 7, 35, 16, 2, 29, 30, 25, 26, 31, 8, 37, 17, 38, 21,
     24, 16, 12, 24, 5, 10, 32, 16, 11, 29, 28, 7, 3, 38, 24, 2, 7, 15, 1, 9,
     32, 14, 24, 34, 32, 25, 29, 38, 34, 3, 20, 0, 28, 23, 10, 24, 2, 23, 26,
     15, 6, 11, 8, 26, 35, 24, 41, 11, 17, 13, 22, 38, 4, 36, 41, 7, 39, 27,
     39, 32, 26, 34, 34, 20, 22, 39, 6, 6, 27, 22, 4, 3, 2, 25, 13, 38, 23, 30,
     8, 9, 41, 18, 41, 41, 3, 1, 3, 12, 7, 27, 39, 6, 22, 17, 3, 10, 28, 14,
     22, 29, 11, 29, 1, 21, 7, 35, 21, 4, 0, 41, 37, 22, 2, 16, 7, 29, 29, 0,
     23, 38, 11, 15, 35, 13, 21, 23, 20, 30, 18, 18, 24, 27, 17, 19, 37, 2, 1,
     15, 16, 21, 14, 10, 9, 41, 11, 16, 41, 6, 11, 26, 30, 30, 33, 16, 39, 5,
     17, 0, 29, 22, 9, 34, 30, 8, 17, 22, 40, 29, 18, 38, 27, 0, 10, 24, 12, 7,
     5, 14, 0, 27, 2, 24, 41, 25, 6, 38, 4, 7, 25, 32, 34, 29, 32, 26, 27, 31,
     7, 31, 26, 30, 33, 38, 27, 1, 31, 21, 34, 29, 38, 36, 8, 30, 5, 21, 40,
     11, 34, 21, 10, 33, 29, 36, 24, 38, 19, 12, 1, 6, 11, 29, 2, 35, 20, 13,
     22, 39, 34, 33, 13, 37, 9, 34, 19, 29, 11, 8, 4, 17, 4, 33, 40, 10, 24, 3,
     31, 29, 3, 36, 32, 4, 16, 38, 12, 3, 17, 6, 25, 0, 8, 23, 14, 18, 23, 38,
     3, 6, 34, 29, 37, 20, 9, 27, 12, 37, 34, 35, 17, 12, 33, 36, 21, 0, 38,
     18, 32, 17, 41, 15, 19, 13, 25, 4, 22, 16, 33, 41, 32, 4, 10, 0, 29, 41,
     13, 5, 21, 24, 29, 3, 13, 29, 1, 16, 15, 0, 33, 29, 12, 22, 32, 32, 1, 37,
     24, 6, 11, 26, 0, 4, 6, 20, 41, 41, 27, 0, 41, 38, 35, 12, 9, 18, 13, 40,
     29, 12, 0, 4, 7, 1, 15, 33, 29, 10, 2, 34, 26, 34, 41, 31, 30, 12, 15, 25,
     32, 7, 31, 19, 10, 30, 32, 40, 3, 21, 17, 6, 38, 16, 23, 2, 24, 12, 38,
     41, 10, 34, 38, 36, 11, 31, 15, 9, 21, 1, 11, 16, 32, 27, 21, 11, 7, 32,
     38, 25, 6, 35, 41, 8, 27, 2, 4, 8, 13, 1, 28, 28, 5, 36, 18, 6, 18, 28,
     20, 41, 25, 15, 23, 4, 40, 25, 31, 3, 15, 16, 16, 33, 5, 24, 10, 33, 0,
     23, 31, 40, 35, 26, 32, 40, 39, 3, 11, 25, 28, 10, 20, 40, 4, 19, 25, 37,
     34, 16, 19, 30, 20, 32, 12, 17, 1, 32, 11, 24, 26, 0, 18, 34, 15, 31, 4,
     4, 13, 31, 15, 41, 12, 20, 30, 13, 6, 16, 10, 16, 18, 26, 28, 5, 33, 28,
     3, 9, 37, 15, 41, 34, 34, 7, 1, 2, 2, 0, 14, 3, 39, 14, 26, 34, 9, 35, 7,
     8, 2, 2, 34, 17, 34, 9, 21, 9, 17, 5, 1, 28, 14, 41, 8, 16, 10, 13, 24,
     35, 39, 7, 4, 13, 15, 13, 22, 24, 39, 21, 40, 32, 23, 27, 32, 21, 6, 32,
     10, 20, 10, 23, 30, 31, 12, 20, 29, 19, 40, 21, 39, 15, 6, 32, 13, 38, 28,
     20, 5, 19, 24, 9, 22, 2, 36, 7, 34, 26, 34, 36, 30, 19, 27, 20, 4, 10, 28,
     34, 4, 31, 20, 23, 29, 4, 6, 11, 9, 41, 35, 38, 23, 37, 13, 31, 2, 4, 39,
     19, 0, 3, 4, 22, 21, 2, 20, 13, 31, 15, 12, 26, 7, 29, 36, 37, 18, 0, 3,
     41, 32, 37, 1, 13, 9, 11, 6, 40, 30, 33, 18, 33, 35, 38, 19, 7, 34, 0, 18,
     23, 29, 37, 27, 21, 18, 22, 2, 25, 17, 31, 22, 23, 13, 11, 30, 22, 23, 11,
     40, 22, 9, 34, 32, 11, 19, 13, 10, 34, 39, 22, 41, 21, 13, 31, 33, 6, 6,
     16, 24, 35, 16, 27, 27, 7, 10, 36, 7, 38, 4, 22, 10, 27, 15, 18, 13, 35,
     37, 29, 19, 8, 24, 40, 31, 10, 22, 32, 12, 19, 25, 15, 6, 29, 26, 23, 14,
     7, 31, 32, 38, 41, 24, 17, 10, 35, 26, 34, 28, 17, 28, 8, 19, 18, 23, 12,
     40, 11, 15, 34, 31, 16, 35, 8, 7, 19, 8, 26, 28, 11, 25, 35, 9, 2, 35, 0,
     41, 15, 0, 21, 41, 37, 15, 33, 12, 40, 0, 23, 15, 23, 31, 15, 39, 17, 37,
     3, 2, 20, 30, 11, 10, 24, 1, 17, 27, 10, 28, 2, 9, 21, 33, 16, 32, 38, 31,
     8, 21, 41, 30, 19, 23, 32, 25, 19, 17, 3, 14, 41, 29, 19, 5, 34, 14, 25,
     20, 9, 19, 9, 32, 16, 32, 33, 7, 10, 34, 37, 29, 26, 10, 35, 3, 21, 34,
     26, 8, 12, 31, 39, 29, 22, 36, 17, 39, 34, 36, 33, 4, 27, 12, 6, 14, 20,
     40, 28, 29, 30, 17, 20, 36, 9, 10, 29, 4, 3, 7, 9, 11, 37, 21, 26, 39, 3,
     11, 24, 9, 10, 39, 24, 24, 31, 9, 17, 23, 27, 1, 1, 2, 16, 18, 18, 8, 39,
     11, 16, 15, 11, 36, 1, 37, 31, 29, 25, 13, 33, 39, 25, 28, 30, 7, 33, 7,
     41, 0, 6, 18, 33, 32, 40, 17, 31, 23, 24, 28, 19, 15, 1, 5, 21, 7, 17, 31,
     11, 4, 26, 0, 20, 25, 4, 6, 25, 14, 10, 10, 33, 36, 28, 33, 27, 39, 14,
     27, 10, 37, 16, 36, 17, 30, 28, 7, 10, 0, 35, 39, 6, 21, 10, 41, 40, 9,
     26, 19, 22, 8, 10, 14, 29, 21, 12, 15, 31, 16, 11, 1, 30, 25, 31, 0, 2,
     35, 21, 8, 2, 7, 30, 10, 8, 27, 10, 32, 26, 40, 6, 21, 2, 15, 17, 18, 1,
     14, 9, 33, 20, 15, 15, 29, 26, 37, 12, 34, 34, 32, 0, 34, 36, 40, 6, 21,
     35, 18, 9, 27, 36, 6, 21, 38, 2, 21, 9, 2, 11, 35, 4, 4, 11, 38, 16, 18,
     4, 20, 37, 18, 27, 21, 7, 15, 14, 34, 24, 9, 6, 33, 6, 12, 5, 29, 0, 26,
     35, 17, 12, 6, 23, 40, 26, 4, 6, 40, 4, 29, 27, 2, 18, 16, 30, 4, 30, 34,
     41, 12, 8, 20, 35, 27, 11, 11, 23, 10, 24, 10, 35, 24, 18, 0, 22, 9, 25,
     17, 13, 0, 7, 19, 10, 36, 14, 38, 18, 32, 14, 26, 17, 30, 7, 10, 9, 26,
     18, 5, 21, 3, 1, 13, 6, 37, 12, 20, 32, 25, 20, 40, 31, 20, 35, 17, 26,
     19, 34, 41, 17, 25, 21, 1, 13, 16, 0, 34, 23, 41, 31, 0, 29, 30, 17, 28,
     11, 5, 30, 31, 19, 38, 22, 35, 9, 28, 3, 28, 27, 22, 14, 8, 9, 14, 15, 4,
     25, 20, 8, 32, 2, 19, 14, 9, 35, 7, 21, 34, 17, 39, 9, 2, 21, 3, 8, 27,
     20, 8, 25, 39, 21, 8, 31, 9, 23, 18, 7, 40, 41, 18, 20, 25, 30, 6, 14, 4,
     10, 19, 18, 22, 17, 3, 34, 38, 41, 32, 17, 11, 25, 26, 19, 19, 3, 36, 27,
     14, 41, 41, 37, 4, 28, 8, 32, 30, 34, 14, 27, 4, 37, 24, 17, 13, 38, 35,
     19, 3, 18, 13, 14, 38, 11, 33, 39, 31, 40, 5, 35, 39, 11, 36, 18, 30, 30,
     27, 40, 3, 19, 33, 19, 21, 31, 2, 4, 30, 23, 41, 15, 0, 17, 26, 9, 3, 25,
     35, 4, 20, 1, 21, 7, 28, 14, 8, 12, 33, 9, 0, 3, 22, 21, 37, 37, 37, 19,
     35, 9, 14, 37, 5, 34, 3, 39, 22, 40, 9, 35, 39, 6, 32, 28, 9, 39, 28, 36,
     38, 39, 36, 20, 12, 22, 2, 30, 35, 35, 17, 3, 36, 0, 31, 41, 40, 37, 10,
     13, 9, 29, 3, 13, 17, 1, 27, 6, 31, 3, 23, 36, 33, 35, 8, 21, 24, 36, 28,
     19, 6, 25, 26, 32, 14, 12, 13, 28, 40, 0, 30, 36, 6, 0, 33, 33, 8, 4, 0,
     17, 15, 31, 34, 29, 2, 23, 10, 22, 33, 26, 27, 30, 33, 1, 37, 0, 38, 35,
     24, 23, 38, 28, 2, 0, 21, 9, 40, 5, 32, 18, 30, 34, 31, 13, 27, 40, 13,
     41, 16, 35, 30, 34, 37, 30, 24, 27, 23, 29, 3, 14, 30, 25, 19, 19, 39, 31,
     9, 14, 24, 25, 19, 19, 27, 3, 23, 10, 31, 26, 16, 41, 25, 38, 0, 7, 11,
     15, 11, 8, 14, 22, 28, 6, 34, 9, 11, 34, 35, 22, 11, 35, 11, 17, 15, 14,
     22, 11, 25, 41, 19, 3, 23, 35, 5, 35, 38, 31, 10, 32, 39, 6, 34, 4, 32,
     15, 28, 7, 34, 2, 21, 27, 20, 30, 1, 22, 2, 32, 16, 14, 27, 30, 41, 0, 35,
     13, 15, 40, 31, 31, 4, 22, 25, 20, 31, 14, 27, 32, 15, 7, 12, 26, 30, 40,
     32, 16, 14, 2, 32, 13, 37, 7, 14, 28, 33, 35, 27, 30, 8, 22, 29, 24, 10,
     31, 18, 9, 5, 25, 30, 17, 16, 31, 7, 5, 22, 15, 38, 0, 27, 23, 39, 34, 12,
     11, 1, 6, 8, 25, 9, 35, 15, 5, 23, 3, 40, 20, 20, 11, 28, 27, 30, 1, 2,
     21, 3, 39, 2, 14, 3, 26, 2, 19, 21, 2, 12, 8, 5, 2, 12, 27, 11, 0, 10, 27,
     23, 8, 15, 14, 31, 32, 25, 2, 8, 4, 11, 24, 35, 37, 18, 21, 16, 0, 8, 4,
     7, 36, 8, 7, 12, 39, 15, 29, 7, 26, 17, 35, 40, 0, 35, 21, 37, 10, 6, 14,
     8, 11, 27, 27, 21, 6, 1, 12, 25, 30, 4, 31, 9, 33, 1, 21, 25, 7, 14, 29,
     19, 7, 18, 26, 18, 6, 39, 27, 27, 9, 7, 14, 34, 28, 26, 19, 41, 5, 32, 37,
     15, 37, 10, 1, 31, 30, 25, 32, 4, 32, 27, 19, 13, 35, 0, 21, 30, 3, 40,
     21, 20, 15, 18, 22, 12, 10, 2, 32, 40, 5, 16, 10, 30, 1, 27, 34, 18, 35,
     17, 38, 12, 0, 4, 18, 21, 10, 39, 27, 8, 4, 27, 31, 31, 32, 6, 12, 4, 10,
     25, 11, 7, 8, 30, 8, 2, 29, 2, 19, 38, 30, 18, 25, 34, 7, 34, 20, 23, 8,
     37, 23, 39, 9, 25, 4, 27, 35, 15, 12, 17, 14, 33, 13, 6, 27, 19, 23, 2,
     22, 27, 13, 8, 35, 23, 10, 36, 30, 36, 14, 22, 24, 2, 33, 8, 34, 33, 17,
     0, 33, 41, 12, 4, 31, 11, 37, 26, 19, 7, 23, 21, 2, 23, 22, 38, 18, 37,
     12, 37, 12, 23, 21, 24, 14, 11, 6, 31, 21, 26, 7, 9, 34, 9, 22, 38, 9, 33,
     26, 2, 12, 37, 31, 1, 15, 17, 33, 0, 34, 13, 29, 22, 6, 24, 29, 33, 12,
     11, 22, 20, 17, 11, 3, 12, 39, 31, 13, 19, 10, 19, 35, 39, 22, 1, 27, 2,
     26, 8, 4, 31, 13, 41, 19, 38, 21, 6, 13, 3, 2, 5, 32, 12, 26, 41, 20, 34,
     1, 40, 19, 26, 40, 17, 1, 3, 17, 32, 16, 2, 4, 37, 12, 27, 12, 13, 17, 32,
     32, 4, 37, 6, 37, 3, 34, 1, 20, 7, 30, 28, 28, 12, 29, 5, 32, 11, 1, 7,
     41, 2, 24, 35, 33, 25, 31, 26, 18, 30, 12, 4, 3, 21, 12, 26, 16, 16, 38,
     28, 1, 22, 20, 4, 7, 0, 0, 1, 0, 28, 22, 35, 10, 19, 12, 6, 20, 29, 10,
     38, 41, 0, 11, 36, 24, 37, 32, 14, 28, 30, 37, 40, 31, 31, 40, 39, 33, 22,
     16, 0, 8, 13, 36, 41, 23, 4, 22, 35, 30, 13, 33, 9, 40, 1, 11, 27, 24, 37,
     7, 20, 29, 5, 23, 21, 26, 4, 24, 13, 19, 3, 35, 39, 39, 16, 7, 26, 35, 32,
     34, 8, 29, 34, 30, 27, 26, 34, 4, 21, 36, 23, 19, 31, 25, 35, 41, 12, 15,
     6, 40, 26, 29, 21, 14, 26, 26, 17, 9, 35, 31, 23, 19, 32, 36, 30, 11, 40,
     5, 22, 14, 0, 27, 32, 2, 8, 8, 41, 16, 41, 16, 35, 25, 0, 37, 3, 17, 41,
     40, 13, 6, 2, 18, 38, 15, 38, 18, 7, 7, 0, 12, 4, 29, 6, 30, 22, 39, 1,
     31, 20, 22, 22, 4, 6, 29, 25, 33, 41, 21, 14, 30, 12, 19, 13, 9, 16, 8,
     30, 24, 28, 11, 31, 38, 7, 0, 9, 14, 27, 31, 32, 25, 21, 2, 37, 4, 21, 8,
     2, 38, 11, 24, 6, 15, 2, 23, 39, 7, 9, 41, 37, 30, 35, 2, 3, 26, 35, 32,
     1, 24, 28, 10, 5, 22, 33, 22, 22, 33, 9, 4, 38, 13, 21, 37, 1, 1, 23, 41,
     8, 29, 6, 6, 15, 30, 3, 16, 35, 15, 1, 11, 28, 30, 31, 27, 1, 12, 19, 12,
     6, 32, 22, 40, 20, 33, 33, 9, 37, 20, 10, 4, 11, 11, 13, 0, 7, 17, 23, 17,
     10, 10, 9, 20, 29, 19, 29, 3, 24, 24, 12, 38, 39, 36, 6, 23, 16, 4, 9, 7,
     24, 15, 33, 39, 0, 40, 32, 13, 1, 31, 18, 5, 0, 29, 39, 9, 39, 21, 32, 1,
     39, 23, 33, 39, 26, 30, 41, 5, 13, 40, 26, 27, 37, 29, 37, 34, 16, 18, 32,
     38, 0, 32, 0, 31, 25, 10, 15, 25, 4, 38, 0, 29, 15, 15, 28, 34, 21, 9, 18,
     36, 8, 26, 29, 33, 25, 26, 7, 20, 32, 22, 26, 8, 29, 41, 30, 39, 11, 14,
     16, 6, 2, 27, 40, 23, 36, 9, 20, 20, 2, 11, 6, 1, 8, 29, 22, 10, 37, 16,
     39, 30, 20, 8, 38, 4, 16, 28, 32, 20, 15, 15, 37, 36, 11, 17, 41, 12, 4,
     41, 2, 36, 4, 19, 20, 14, 19, 34, 27, 32, 2, 40, 41, 24, 14, 27, 27, 6,
     12, 12, 3, 23, 0, 0, 25, 7, 30, 22, 37, 37, 1, 12, 11, 4, 15, 38, 10, 24,
     5, 10, 11, 34, 22, 13, 3, 17, 11, 15, 18, 2, 21, 17, 11, 8, 22, 12, 8, 33,
     24, 28, 13, 4, 29, 12, 21, 24, 39, 24, 33, 32, 20, 38, 39, 39, 29, 35, 11,
     14, 35, 36, 27, 40, 18, 4, 3, 5, 30, 1, 27, 13, 30, 8, 31, 36, 14, 10, 35,
     26, 34, 11, 28, 16, 10, 30, 19, 6, 1, 28, 5, 23, 36, 0, 26, 34, 36, 16,
     13, 10, 5, 30, 26, 16, 35, 39, 10, 3, 7, 30, 33, 12, 36, 40, 31, 5, 15,
     34, 30, 20, 35, 24, 29, 23, 30, 40, 3, 2, 11, 15, 2, 5, 0, 20, 5, 25, 5,
     35, 21, 26, 15, 18, 31, 31, 0, 14, 26, 19, 2, 2, 25, 7, 34, 7, 28, 2, 27,
     15, 20, 33, 41, 9, 18, 1, 18, 22, 2, 28, 18, 26, 34, 0, 3, 3, 19, 23, 10,
     13, 37, 18, 34, 24, 1, 11, 0, 7, 7, 28, 32, 31, 1, 20, 33, 10, 18, 41, 39,
     17, 3, 35, 40, 33, 38, 5, 0, 9, 35, 2, 15, 7, 17, 9, 11, 15, 26, 8, 19,
     23, 13, 2, 11, 1, 16, 18, 8, 9, 20, 29, 39, 17, 5, 19, 22, 36, 0, 41, 19,
     7, 8, 34, 32, 41, 8, 21, 29, 23, 36, 2, 41, 1, 4, 5, 27, 36, 5, 5, 22, 5,
     25, 14, 5, 20, 8, 29, 1, 1, 24, 16, 25, 2, 30, 23, 9, 16, 9, 1, 36, 33,
     24, 4, 29, 32, 26, 8, 4, 6, 33, 31, 10, 20, 5, 16, 16, 19, 22, 39, 29, 12,
     24, 22, 25, 7, 31, 0, 1, 27, 1, 38, 38, 0, 32, 8, 14, 31, 9, 10, 27, 17,
     28, 25, 4, 15, 3, 23, 20, 14, 22, 30, 28, 24, 39, 23, 6, 30, 20, 25, 3,
     31, 25, 22, 21, 30, 3, 22, 6, 20, 8, 3, 33, 24, 33, 26, 2, 34, 5, 3, 2,
     21, 3, 15, 13, 30, 17, 32, 9, 24, 24, 6, 7, 28, 33, 25, 6, 8, 29, 20, 20,
     24, 21, 24, 13, 25, 19, 10, 9, 14, 37, 4, 32, 38, 32, 7, 41, 41, 3, 9, 6,
     39, 24, 28, 9, 2, 27, 15, 21, 8, 7, 0, 13, 8, 35, 29, 1, 32, 20, 5, 30,
     14, 11, 0, 1, 2, 26, 18, 2, 25, 26, 29, 33, 35, 37, 33, 25, 26, 15, 26, 8,
     14, 36, 39, 17, 28, 0, 25, 15, 25, 3, 17, 14, 5, 19, 14, 31, 30, 13, 14,
     13, 0, 37, 27, 38, 28, 3, 5, 31, 22, 8, 18, 17, 29, 20, 10, 15, 18, 37, 3,
     41, 5, 10, 18, 30, 38, 25, 13, 24, 33, 37, 1, 14, 21, 35, 5, 8, 37, 18, 5,
     16, 28, 18, 25, 2, 20, 32, 16, 29, 41, 16, 38, 23, 38, 7, 14, 26, 36, 38,
     19, 23, 20, 19, 34, 3, 31, 21, 17, 12, 24, 3, 15, 5, 1, 23, 18, 16, 10,
     14, 38, 29, 35, 16, 4, 7, 15, 39, 41, 26, 0, 30, 26, 17, 14, 38, 6, 39,
     40, 12, 2, 20, 16, 40, 24, 6, 40, 30, 4, 39, 15, 41, 26, 15, 6, 9, 28, 23,
     29, 26, 40, 26, 12, 38, 3, 14, 38, 36, 36, 14, 9, 7, 14, 15, 8, 26, 41,
     34, 40, 23, 15, 34, 7, 8, 3, 34, 35, 13, 22, 21, 18, 35, 32, 13, 28, 8,
     35, 41, 24, 9, 22, 37, 16, 13, 25, 10, 5, 15, 18, 10, 5, 26, 38, 1, 39,
     36, 23, 1, 29, 22, 41, 23, 17, 2, 2, 30, 35, 19, 32, 14, 22, 40, 0, 16,
     40, 6, 3, 2, 13, 24, 21, 28, 35, 1, 38, 40, 39, 1, 15, 6, 29, 11, 16, 0,
     36, 36, 0, 38, 25, 29, 2, 12, 26, 20, 33, 20, 7, 7, 32, 17, 38, 33, 35,
     36, 25, 14, 29, 1, 16, 28, 8, 20, 30, 28, 31, 5, 37, 19, 13, 34, 26, 1,
     11, 18, 22, 1, 28, 7, 13, 8, 15, 35, 24, 34, 3, 6, 37, 6, 2, 32, 13, 30,
     16, 21, 41, 30, 26, 19, 31, 36, 29, 13, 31, 17, 41, 40, 40, 4, 9, 35, 4,
     20, 12, 26, 21, 7, 28, 35, 10, 40, 35, 39, 23, 36, 26, 16, 24, 3, 30, 5,
     38, 33, 11, 1, 5, 22, 6, 35, 14, 17, 6, 25, 27, 21, 4, 34, 18, 37, 35, 40,
     31, 3, 17, 1, 27, 26, 31, 15, 35, 35, 4, 39, 9, 6, 14, 33, 27, 24, 29, 13,
     4, 10, 7, 16, 23, 21, 41, 35, 29, 19, 25, 16, 41, 34, 41, 39, 32, 39, 18,
     20, 15, 35, 3, 40, 4, 3, 36, 7, 12, 23, 30, 37, 20, 38, 35, 17, 40, 5, 2,
     21, 27, 17, 25, 10, 31, 30, 7, 33, 40, 16, 2, 36, 41, 35, 19, 32, 38, 20,
     41, 22, 2, 4, 14, 40, 14, 20, 7, 28, 35, 16, 18, 20, 21, 39, 24, 17, 25,
     36, 7, 32, 30, 39, 1, 9, 38, 9, 10, 10, 9, 7, 12, 9, 20, 25, 3, 24, 33, 7,
     14, 22, 12, 25, 37, 12, 21, 17, 20, 36, 25, 38, 9, 36, 41, 9, 14, 32, 16,
     0, 0, 19, 29, 32, 8, 10, 31, 1, 5, 17, 15, 1, 7, 33, 7, 25, 35, 12, 36,
     21, 15, 33, 31, 10, 41, 0, 1, 14, 4, 6, 18, 18, 2, 27, 37, 37, 14, 1, 38,
     31, 31, 7, 16, 12, 38, 28, 28, 7, 26, 20, 6, 28, 10, 29, 28, 19, 7, 28, 6,
     9, 21, 27, 14, 38, 5, 26, 25, 29, 7, 9, 14, 18, 17, 29, 40, 9, 19, 30, 9,
     37, 8, 41, 4, 28, 16, 34, 13, 1, 30, 6, 10, 34, 22, 26, 33, 20, 14, 1, 34,
     15, 27, 7, 5, 35, 34, 12, 27, 19, 27, 7, 10, 28, 11, 38, 20, 40, 0, 28,
     35, 16, 32, 6, 28, 10, 17, 41, 4, 10, 12, 0, 4, 9, 17, 30, 30, 28, 7, 35,
     31, 31, 14, 24, 21, 33, 29, 26, 22, 18, 38, 5, 12, 37, 19, 6, 24, 16, 23,
     3, 27, 24, 39, 31, 3, 2, 9, 9, 18, 7, 41, 22, 2, 34, 11, 5, 33, 36, 35,
     27, 23, 15, 22, 35, 14, 25, 15, 21, 12, 33, 13, 37, 12, 33, 9, 13, 6, 17,
     34, 33, 2, 25, 2, 30, 8, 3, 13, 14, 3, 32, 19, 17, 16, 22, 31, 36, 20, 30,
     20, 9, 40, 25, 7, 11, 27, 30, 4, 8, 29, 29, 38, 16, 7, 31, 38, 17, 23, 30,
     1, 24, 3, 2, 21, 27, 10, 12, 18, 7, 31, 37, 24, 11, 21, 12, 28, 12, 29, 6,
     2, 26, 8, 34, 21, 1, 3, 37, 26, 1, 5, 24, 18, 14, 30, 29, 5, 21, 0, 2, 26,
     26, 35, 2, 36, 17, 16, 13, 14, 11, 10, 28, 16, 33, 25, 24, 7, 13, 23, 36,
     41, 10, 18, 37, 40, 0, 37, 18, 38, 4, 8, 19, 37, 2, 11, 0, 14, 41, 22, 11,
     17, 15, 4, 26, 23, 10, 13, 17, 16, 1, 15, 11, 33, 36, 11, 24, 26, 2, 40,
     4, 20, 32, 16, 9, 9, 37, 5, 29, 0, 30, 0, 17, 4, 38, 21, 27, 18, 11, 29,
     0, 21, 7, 6, 9, 35, 31, 39, 11, 6, 17, 32, 38, 2, 29, 30, 36, 34, 25, 6,
     17, 30, 16, 26, 24, 32, 38, 25, 32, 31, 26, 36, 18, 22, 15, 9, 3, 20, 32,
     17, 12, 11, 25, 31, 34, 24, 16, 15, 4, 41, 23, 26, 19, 21, 19, 29, 1, 33,
     32, 13, 35, 12, 26, 36, 0, 19, 12, 37, 24, 19, 19, 4, 20, 31, 14, 25, 23,
     27, 11, 16, 10, 7, 23, 36, 12, 39, 1, 39, 19, 35, 34, 13, 11, 36, 31, 10,
     21, 0, 1, 1, 29, 26, 40, 21, 27, 12, 8, 40, 27, 37, 18, 3, 15, 21, 39, 15,
     1, 21, 7, 25, 27, 1, 34, 18, 24, 25, 34, 35, 21, 1, 16, 29, 5, 1, 37, 37,
     10, 5, 24, 14, 1, 30, 3, 20, 20, 11, 36, 18, 15, 35, 23, 29, 20, 6, 19, 8,
     9, 8, 38, 32, 29, 2, 1, 16, 4, 28, 20, 2, 36, 25, 10, 8, 33, 13, 21, 23,
     4, 36, 35, 36, 39, 36, 28, 10, 20, 15, 7, 0, 3, 34, 6, 24, 7, 18, 28, 28,
     30, 18, 38, 23, 28, 15, 10, 33, 33, 26, 19, 21, 28, 21, 33, 6, 35, 32, 31,
     18, 33, 6, 21, 13, 2, 27, 32, 17, 40, 14, 33, 26, 5, 38, 29, 15, 35, 27,
     26, 19, 31, 8, 17, 36, 2, 33, 22, 16, 24, 39, 31, 23, 8, 17, 21, 2, 28,
     29, 17, 5, 9, 11, 41, 2, 23, 28, 9, 16, 37, 27, 3, 22, 15, 40, 17, 11, 12,
     37, 26, 1, 3, 31, 21, 9, 37, 3, 38, 36, 1, 32, 31, 32, 34, 38, 15, 13, 4,
     8, 9, 2, 7, 12, 27, 3, 35, 31, 22, 29, 37, 6, 41, 38, 7, 2, 31, 21, 37,
     10, 15, 9, 40, 29, 12, 9, 14, 13, 17, 7, 12, 22, 19, 39, 11, 17, 35, 0,
     29, 23, 6, 8, 12, 21, 35, 27, 9, 36, 22, 15, 2, 41, 29, 40, 15, 14, 27,
     36, 21, 12, 23, 25, 1, 13, 4, 1, 41, 14, 38, 11, 35, 10, 18, 40, 12, 29,
     30, 10, 18, 21, 12, 24, 4, 29, 13, 33, 5, 16, 6, 7, 18, 5, 37, 6, 20, 29,
     24, 24, 10, 38, 12, 38, 20, 18, 21, 31, 27, 34, 25, 2, 29, 26, 6, 11, 2,
     35, 29, 35, 6, 16, 5, 27, 6, 37, 1, 21 >>

\* the values random.random() returns after random.seed(s)
RandomOutputs(s) ==
  CASE s = 0 -> RandomSeed0
    [] s = 1 -> RandomSeed1
    [] s = 2 -> RandomSeed2
    [] s = 3 -> RandomSeed3

\* random.random() at draw number k (from 0) of a run seeded with s; the
\* program draws 20,992 times, the value of a draw beyond those is not
\* recorded
Random(s, k) ==
  IF k < Len(RandomOutputs(s)) THEN RandomOutputs(s)[k + 1] ELSE 0

\* fault variant: a randint whose range is one too wide, a value in [a, b + 1]
randintWide(a, b, v) ==
  IF b - a + 1 <= 0
    THEN [value |-> -1, err |-> "ValueError"]
    ELSE [value |-> a + ((v * (b - a + 2)) \div Resolution), err |-> "none"]

\* random.randint(a, b) is a + int(random() * (b - a + 1)), and raises
\* ValueError on an empty range; v is what random() returned.  The result
\* is the value drawn, or -1 with the error flagged.
randint(a, b, v) ==
  IF b - a + 1 <= 0
    THEN [value |-> -1, err |-> "ValueError"]
    ELSE [value |-> a + ((v * (b - a + 1)) \div Resolution), err |-> "none"]

(***************************************************************************)
(* unichr(i): the unicode string of the single code point i; ValueError    *)
(* outside 0..0x10ffff.                                                    *)
(***************************************************************************)
unichr(n) ==
  IF n >= 0 /\ n <= 1114111
    THEN [value |-> <<n>>, err |-> "none"]
    ELSE [value |-> <<>>, err |-> "ValueError"]

\* fault variant: a body that inserts the entry at the front of the list
LoopBodyPrepend(n, table, st) ==
  LET ch == unichr(n)
      rv == randint(0, Len(table) - 1, Random(st.seed, st.draws))
  IN  IF st.err /= "none" THEN st
      ELSE IF ch.err /= "none" THEN [st EXCEPT !.err = ch.err]
      ELSE IF rv.err /= "none" THEN [st EXCEPT !.err = rv.err]
      ELSE [entries |-> <<[char |-> ch.value, color |-> rv.value]>> \o st.entries,
            iter |-> n + 1,
            seed |-> st.seed,
            draws |-> st.draws + 1,
            err |-> "none"]

\* fault variant: a body that offsets the character by the value drawn
LoopBodyCharFromDraw(n, table, st) ==
  LET rv == randint(0, Len(table) - 1, Random(st.seed, st.draws))
      ch == unichr(n + rv.value)
  IN  IF st.err /= "none" THEN st
      ELSE IF rv.err /= "none" THEN [st EXCEPT !.err = rv.err]
      ELSE IF ch.err /= "none" THEN [st EXCEPT !.err = ch.err]
      ELSE [entries |-> Append(st.entries, [char |-> ch.value, color |-> rv.value]),
            iter |-> n + 1,
            seed |-> st.seed,
            draws |-> st.draws + 1,
            err |-> "none"]

\* fault variant: a body that draws twice for one entry
LoopBodyTwoDraws(n, table, st) ==
  LET ch == unichr(n)
      r1 == randint(0, Len(table) - 1, Random(st.seed, st.draws))
      rv == randint(0, Len(table) - 1, Random(st.seed, st.draws + 1))
  IN  IF st.err /= "none" THEN st
      ELSE IF ch.err /= "none" THEN [st EXCEPT !.err = ch.err]
      ELSE IF rv.err /= "none" THEN [st EXCEPT !.err = rv.err]
      ELSE [entries |-> Append(st.entries, [char |-> ch.value, color |-> rv.value]),
            iter |-> n + 1,
            seed |-> st.seed,
            draws |-> st.draws + 2,
            err |-> "none"]

(***************************************************************************)
(* One iteration of the loop body of DoJob for code point n, on the local  *)
(* state st = [entries, iter, seed, draws, err]; iter is the next value    *)
(* range iterator yields.  An exception leaves the list as it was and is   *)
(* carried in err.                                                         *)
(***************************************************************************)
LoopBody(n, table, st) ==
  LET ch == unichr(n)
      rv == randint(0, Len(table) - 1, Random(st.seed, st.draws))
  IN  IF st.err /= "none" THEN st
      ELSE IF ch.err /= "none" THEN [st EXCEPT !.err = ch.err]
      ELSE IF rv.err /= "none" THEN [st EXCEPT !.err = rv.err]
      ELSE [entries |-> Append(st.entries, [char |-> ch.value, color |-> rv.value]),
            iter |-> n + 1,
            seed |-> st.seed,
            draws |-> st.draws + 1,
            err |-> "none"]

(***************************************************************************)
(* `for i in range(lo, hi): body`, as the sequential composition of the    *)
(* body over lo, lo + 1, ..., hi - 1: the first half of the range, then    *)
(* the second half on the state the first half leaves (split at the        *)
(* middle, so that the evaluation nests only logarithmically deep; the     *)
(* middle and the state after the first half are bound as values before    *)
(* the second half is entered).                                            *)
(***************************************************************************)
RECURSIVE ForRange(_, _, _, _)
ForRange(lo, hi, table, st) ==
  IF lo >= hi THEN st
  ELSE IF hi = lo + 1 THEN LoopBody(lo, table, st)
  ELSE CHOOSE out \in
         UNION { { ForRange(mid, hi, table, half) :
                     half \in {ForRange(lo, mid, table, st)} } :
                 mid \in {(lo + hi) \div 2} } : TRUE

(***************************************************************************)
(* json.dumps (ensure_ascii): a unicode string is emitted between quotes,  *)
(* every code unit outside printable ASCII as \uXXXX with four lowercase   *)
(* hexadecimal digits (a code point above 0xffff as a surrogate pair); an  *)
(* int as its decimal digits.                                              *)
(***************************************************************************)
HexDigit(d) == IF d < 10 THEN 48 + d ELSE 87 + d

Hex4(n) ==
  << HexDigit((n \div 4096) % 16), HexDigit((n \div 256) % 16),
     HexDigit((n \div 16) % 16), HexDigit(n % 16) >>

EscapeChar(c) ==
  IF c = 92 THEN <<92, 92>>
  ELSE IF c = 34 THEN <<92, 34>>
  ELSE IF c = 8 THEN <<92, 98>>
  ELSE IF c = 12 THEN <<92, 102>>
  ELSE IF c = 10 THEN <<92, 110>>
  ELSE IF c = 13 THEN <<92, 114>>
  ELSE IF c = 9 THEN <<92, 116>>
  ELSE IF c >= 32 /\ c <= 126 THEN <<c>>
  ELSE IF c < 65536 THEN <<92, 117>> \o Hex4(c)
  ELSE <<92, 117>> \o Hex4(55296 + (((c - 65536) \div 1024) % 1024))
         \o <<92, 117>> \o Hex4(56320 + ((c - 65536) % 1024))

RECURSIVE EscapeAll(_)
EscapeAll(s) == IF s = <<>> THEN <<>> ELSE EscapeChar(Head(s)) \o EscapeAll(Tail(s))

EncodeString(s) == <<34>> \o EscapeAll(s) \o <<34>>

RECURSIVE EncodeInt(_)
EncodeInt(n) ==
  IF n < 0 THEN <<45>> \o EncodeInt(0 - n)
  ELSE IF n < 10 THEN <<48 + n>>
  ELSE EncodeInt(n \div 10) \o <<48 + (n % 10)>>

\* the document o: both lists are referenced, not copied
Document(table, ents) == [style_table |-> table, entries |-> ents]

\* json.dumps(o): the text of each member of o, the lists as lists (SubSeq
\* keeps a mapped list a sequence value)
JsonDumps(o) ==
  [style_table |-> SubSeq([k \in 1..Len(o.style_table) |->
                             [color |-> o.style_table[k].color,
                              size |-> o.style_table[k].size]],
                          1, Len(o.style_table)),
   entries |-> SubSeq([k \in 1..Len(o.entries) |->
                         [char |-> EncodeString(o.entries[k].char),
                          color |-> EncodeInt(o.entries[k].color)]],
                      1, Len(o.entries))]

(***************************************************************************)
(* Initial states: the interpreter has imported random (the source is      *)
(* seeded from the environment: the seed of the run is chosen) and main()  *)
(* is about to call DoJob(sys.stdout).                                     *)
(***************************************************************************)
InitRuns(R, nseeds) ==
  /\ pc = [r \in R |-> "start"]
  /\ style_table = [r \in R |-> <<>>]
  /\ entries = [r \in R |-> <<>>]
  /\ iter = [r \in R |-> RangeStart]
  /\ seed \in [R -> 0..(nseeds - 1)]
  /\ draws = [r \in R |-> 0]
  /\ sink = [r \in R |-> <<>>]
  /\ delivered = [r \in R |-> "none"]
  /\ exc = [r \in R |-> "none"]
  /\ status = [r \in R |-> -1]

Init == InitRuns({1}, NumSeeds)

InitPair == InitRuns({1, 2}, NumSeedsPair)

\* the local state of DoJob in run r, as LoopBody and ForRange take it
Locals(r) ==
  [entries |-> entries[r], iter |-> iter[r], seed |-> seed[r],
   draws |-> draws[r], err |-> "none"]

\* fault variant: a write followed by a second write, of a newline
WriteCallWithNewline(log, text) ==
  Append(Append(log, [data |-> text, result |-> "pending"]),
         [data |-> <<10>>, result |-> "pending"])

\* f.write(text) on the log of the sink: one call, logged with its text;
\* its outcome is pending until the sink has answered
WriteCall(log, text) == Append(log, [data |-> text, result |-> "pending"])

\* DoJob, up to the loop: o, style_table and entries are created
Construct(r) ==
  /\ pc[r] = "start"
  /\ style_table' = [style_table EXCEPT ![r] = StyleTableLiteral]
  /\ entries' = [entries EXCEPT ![r] = <<>>]
  /\ pc' = [pc EXCEPT ![r] = "loop"]
  /\ UNCHANGED <<iter, seed, draws, sink, delivered, exc, status>>

\* what the loop leaves in run r when it has brought DoJob's locals to st
LoopEffect(r, st) ==
  /\ entries' = [entries EXCEPT ![r] = st.entries]
  /\ iter' = [iter EXCEPT ![r] = st.iter]
  /\ draws' = [draws EXCEPT ![r] = st.draws]
  /\ exc' = [exc EXCEPT ![r] = st.err]
  /\ pc' = [pc EXCEPT ![r] = IF st.err = "none" THEN "loop" ELSE "raised"]

\* the iterations taken one by one: the first and the last MaxSingleSteps
SingleStep(n) == n < RangeStart + MaxSingleSteps \/ n >= RangeStop - MaxSingleSteps

\* one iteration of `for i in range(0x4e00, 0x9fff + 1)`
LoopStep(r) ==
  /\ pc[r] = "loop"
  /\ iter[r] < RangeStop
  /\ SingleStep(iter[r])
  /\ \E st \in {LoopBody(iter[r], style_table[r], Locals(r))} : LoopEffect(r, st)
  /\ UNCHANGED <<style_table, seed, sink, delivered, status>>

\* the iterations between the first and the last MaxSingleSteps, as one step
LoopSteps(r) ==
  /\ pc[r] = "loop"
  /\ iter[r] < RangeStop
  /\ ~SingleStep(iter[r])
  /\ \E st \in {ForRange(iter[r], RangeStop - MaxSingleSteps, style_table[r], Locals(r))} :
       LoopEffect(r, st)
  /\ UNCHANGED <<style_table, seed, sink, delivered, status>>

\* the loop is over: json.dumps(o), and f.write is called with the text
Write(r) ==
  /\ pc[r] = "loop"
  /\ iter[r] >= RangeStop
  /\ \E text \in {JsonDumps(Document(style_table[r], entries[r]))} :
       sink' = [sink EXCEPT ![r] = WriteCall(@, text)]
  /\ pc' = [pc EXCEPT ![r] = "writing"]
  /\ UNCHANGED <<style_table, entries, iter, seed, draws, delivered, exc, status>>

\* the calls of log, the pending ones answered with res
Answered(log, res) ==
  [w \in 1..Len(log) |->
     IF log[w].result = "pending" THEN [log[w] EXCEPT !.result = res] ELSE log[w]]

\* f.write is a blocking call: the run stays in it until the sink has
\* answered, if it ever does.  The file object passes the text on through
\* its buffer: when the sink takes what it is given, f.write returns with
\* the whole text passed on, or with the tail of it still in the buffer
\* (sys.stdout, unless unbuffered); when the sink rejects it, f.write
\* raises IOError and DoJob, which catches nothing, is over.
WriteAnswered(r) ==
  /\ pc[r] = "writing"
  /\ \E res \in {"taken", "IOError"} :
     \E got \in (IF res = "taken" THEN {"buffered", "whole"} ELSE {"truncated"}) :
       /\ sink' = [sink EXCEPT ![r] = Answered(@, res)]
       /\ delivered' = [delivered EXCEPT ![r] = got]
       /\ exc' = [exc EXCEPT ![r] = IF res = "taken" THEN "none" ELSE "IOError"]
       /\ pc' = [pc EXCEPT ![r] = IF res = "taken" THEN "returned" ELSE "raised"]
  /\ UNCHANGED <<style_table, entries, iter, seed, draws, status>>

\* main() and the module's last lines: nothing catches an exception, so
\* after a raise the process ends with a traceback and status 1.  After a
\* normal return the status will be 0; with text still in the buffer of
\* sys.stdout the interpreter, going down, first flushes it.
MainExit(r) ==
  /\ pc[r] \in {"returned", "raised"}
  /\ IF pc[r] = "returned" /\ delivered[r] = "buffered"
       THEN /\ pc' = [pc EXCEPT ![r] = "flushing"]
            /\ UNCHANGED status
       ELSE /\ pc' = [pc EXCEPT ![r] = "exited"]
            /\ status' = [status EXCEPT ![r] = IF pc[r] = "returned" THEN 0 ELSE 1]
  /\ UNCHANGED <<style_table, entries, iter, seed, draws, sink, delivered, exc>>

\* the flush at exit is a blocking write, too.  When the sink has answered
\* it, the process ends with status 0, whatever the answer: a rejected
\* tail is lost, with the one line `close failed in file object
\* destructor` of diagnostic.
FlushAnswered(r) ==
  /\ pc[r] = "flushing"
  /\ \E taken \in BOOLEAN :
       delivered' = [delivered EXCEPT ![r] = IF taken THEN "whole" ELSE "truncated"]
  /\ status' = [status EXCEPT ![r] = 0]
  /\ pc' = [pc EXCEPT ![r] = "exited"]
  /\ UNCHANGED <<style_table, entries, iter, seed, draws, sink, exc>>

\* DoJob(f) as one step, in every run of R at once: construction, the
\* whole loop, json.dumps(o), the call of f.write
DoJobRuns(R) ==
  /\ R /= {}
  /\ \A r \in R : pc[r] = "start"
  /\ \E st \in {[r \in R |-> ForRange(RangeStart, RangeStop, StyleTableLiteral,
                                      [Locals(r) EXCEPT !.entries = <<>>])]} :
     \E text \in {[r \in R |-> IF st[r].err = "none"
                                 THEN JsonDumps(Document(StyleTableLiteral, st[r].entries))
                                 ELSE <<>>]} :
       /\ style_table' = [r \in DOMAIN pc |->
                            IF r \in R THEN StyleTableLiteral ELSE style_table[r]]
       /\ entries' = [r \in DOMAIN pc |-> IF r \in R THEN st[r].entries ELSE entries[r]]
       /\ iter' = [r \in DOMAIN pc |-> IF r \in R THEN st[r].iter ELSE iter[r]]
       /\ draws' = [r \in DOMAIN pc |-> IF r \in R THEN st[r].draws ELSE draws[r]]
       /\ sink' = [r \in DOMAIN pc |->
                     IF r \in R /\ st[r].err = "none"
                       THEN WriteCall(sink[r], text[r])
                       ELSE sink[r]]
       /\ exc' = [r \in DOMAIN pc |-> IF r \in R THEN st[r].err ELSE exc[r]]
       /\ pc' = [r \in DOMAIN pc |->
                   IF r \notin R THEN pc[r]
                   ELSE IF st[r].err = "none" THEN "writing" ELSE "raised"]
  /\ UNCHANGED <<seed, delivered, status>>

\* DoJob(f) as one step of run r
DoJob(r) == DoJobRuns({r})

(***************************************************************************)
(* Spec takes DoJob piecewise (Construct, LoopStep, LoopSteps, Write) and  *)
(* also as the single step DoJob, which leads to the state the pieces lead *)
(* to.  SpecPair steps two runs side by side, both taking DoJob in the      *)
(* same step.                                                              *)
(*                                                                         *)
(* Interpreter is what the interpreter does by itself, SinkAnswers what    *)
(* takes an answer of the sink.  SpecLive is Spec with the interpreter     *)
(* always running the next statement; nothing makes a sink answer (a pipe  *)
(* nobody reads holds the writer in f.write for good), so SpecLive asks    *)
(* nothing of SinkAnswers.                                                 *)
(***************************************************************************)
Interpreter ==
  \/ \E r \in DOMAIN pc : Construct(r)
  \/ \E r \in DOMAIN pc : LoopStep(r)
  \/ \E r \in DOMAIN pc : LoopSteps(r)
  \/ \E r \in DOMAIN pc : Write(r)
  \/ \E r \in DOMAIN pc : DoJob(r)
  \/ \E r \in DOMAIN pc : MainExit(r)

SinkAnswers ==
  \/ \E r \in DOMAIN pc : WriteAnswered(r)
  \/ \E r \in DOMAIN pc : FlushAnswered(r)

Next == Interpreter \/ SinkAnswers

NextPair ==
  \/ DoJobRuns(DOMAIN pc)
  \/ \E r \in DOMAIN pc : MainExit(r)
  \/ SinkAnswers

Spec == Init /\ [][Next]_vars

SpecLive == Init /\ [][Next]_vars /\ WF_vars(Interpreter)

SpecPair == InitPair /\ [][NextPair]_vars

(***************************************************************************)
(* Reading the written text back (a JSON parser's view of it): the code    *)
(* points of a JSON string, the value of a JSON integer.                   *)
(***************************************************************************)
HexValue(c) ==
  IF c >= 48 /\ c <= 57 THEN c - 48
  ELSE IF c >= 97 /\ c <= 102 THEN c - 87
  ELSE IF c >= 65 /\ c <= 70 THEN c - 55
  ELSE -1

Hex4Value(t, at) ==
  4096 * HexValue(t[at]) + 256 * HexValue(t[at + 1])
    + 16 * HexValue(t[at + 2]) + HexValue(t[at + 3])

SimpleEscape(c) ==
  IF c = 98 THEN 8 ELSE IF c = 102 THEN 12 ELSE IF c = 110 THEN 10
  ELSE IF c = 114 THEN 13 ELSE IF c = 116 THEN 9 ELSE c

RECURSIVE Unescape(_)
Unescape(t) ==
  IF t = <<>> THEN <<>>
  ELSE IF t[1] /= 92 THEN <<t[1]>> \o Unescape(Tail(t))
  ELSE IF Len(t) >= 6 /\ t[2] = 117
    THEN LET hi == Hex4Value(t, 3)
         IN  IF /\ hi >= 55296 /\ hi <= 56319
                /\ Len(t) >= 12 /\ t[7] = 92 /\ t[8] = 117
                /\ Hex4Value(t, 9) >= 56320 /\ Hex4Value(t, 9) <= 57343
               THEN <<65536 + (hi - 55296) * 1024 + (Hex4Value(t, 9) - 56320)>>
                      \o Unescape(SubSeq(t, 13, Len(t)))
               ELSE <<hi>> \o Unescape(SubSeq(t, 7, Len(t)))
  ELSE IF Len(t) >= 2 THEN <<SimpleEscape(t[2])>> \o Unescape(SubSeq(t, 3, Len(t)))
  ELSE <<-1>>

DecodeString(t) ==
  IF Len(t) >= 2 /\ t[1] = 34 /\ t[Len(t)] = 34
    THEN Unescape(SubSeq(t, 2, Len(t) - 1))
    ELSE <<-1>>

RECURSIVE DecodeInt(_)
DecodeInt(t) ==
  IF t = <<>> THEN 0
  ELSE IF t[1] = 45 THEN 0 - DecodeInt(Tail(t))
  ELSE 10 * DecodeInt(SubSeq(t, 1, Len(t) - 1)) + (t[Len(t)] - 48)

\* the code points of the `char` fields of a written document, in order
CodePoints(doc) == [k \in 1..Len(doc.entries) |-> DecodeString(doc.entries[k].char)]

\* the `color` fields of a written document, in order
Colors(doc) == [k \in 1..Len(doc.entries) |-> DecodeInt(doc.entries[k].color)]

\* run r has made its call on the sink; the text of that call
Written(r) == sink[r] /= <<>>

Doc(r) == sink[r][1].data

(***************************************************************************)
(* C1: in every document passed to the sink, the `char` fields decoded     *)
(* back to code points are exactly 0x4E00, 0x4E01, ..., 0x9FFF in this     *)
(* order: position k (0-based) holds 0x4E00 + k, whatever is drawn.        *)
(***************************************************************************)
C1_CharSequence ==
  \A r \in DOMAIN pc :
    \A w \in 1..Len(sink[r]) :
      CodePoints(sink[r][w].data) = [k \in 1..(40959 - 19968 + 1) |-> <<19968 + (k - 1)>>]

C1_Witness ==
  /\ pc[1] = "writing"
  /\ Written(1)
  /\ CodePoints(Doc(1))[2] = <<19969>>
  /\ Doc(1).entries[2].char = <<34, 92, 117, 52, 101, 48, 49, 34>>

(***************************************************************************)
(* C2: every run that reaches the write passes a document whose `entries`  *)
(* has exactly 20,992 = 0x9FFF - 0x4E00 + 1 entries.                       *)
(***************************************************************************)
C2_EntryCount ==
  \A r \in DOMAIN pc :
    \A w \in 1..Len(sink[r]) :
      /\ Len(sink[r][w].data.entries) = 20992
      /\ Len(sink[r][w].data.entries) = 40959 - 19968 + 1

C2_Witness ==
  /\ Written(1)
  /\ Len(Doc(1).entries) = 20992
  /\ Len(entries[1]) = 20992

(***************************************************************************)
(* C8: in the written document the first entry's `char` is the character   *)
(* at code point 0x4E00 and the last entry's `char` the character at code  *)
(* point 0x9FFF (the upper bound is inclusive).                            *)
(***************************************************************************)
C8_FirstAndLast ==
  \A r \in DOMAIN pc :
    \A w \in 1..Len(sink[r]) :
      LET es == sink[r][w].data.entries
      IN  /\ es /= <<>>
          /\ DecodeString(es[1].char) = <<19968>>
          /\ DecodeString(es[Len(es)].char) = <<40959>>

C8_Witness ==
  /\ Written(1)
  /\ Doc(1).entries[1].char = <<34, 92, 117, 52, 101, 48, 48, 34>>
  /\ Doc(1).entries[Len(Doc(1).entries)].char = <<34, 92, 117, 57, 102, 102, 102, 34>>

(***************************************************************************)
(* C3: in every reachable state, every `color` of every entry is an        *)
(* integer in [0, 5], hence an index into the six-entry style_table        *)
(* (0 <= color <= len(style_table) - 1); so is every `color` written, and  *)
(* so is what randint returns on the table of the run for every value      *)
(* random() can return.                                                    *)
(***************************************************************************)
C3_ColorRange ==
  \A r \in DOMAIN pc :
    /\ \A k \in 1..Len(entries[r]) :
         /\ entries[r][k].color \in 0..5
         /\ entries[r][k].color <= Len(style_table[r]) - 1
    /\ pc[r] = "loop" =>
         \A v \in 0..(Resolution - 1) :
           /\ randint(0, Len(style_table[r]) - 1, v).err = "none"
           /\ randint(0, Len(style_table[r]) - 1, v).value \in 0..5
    /\ \A w \in 1..Len(sink[r]) :
         \A k \in 1..Len(sink[r][w].data.entries) :
           DecodeInt(sink[r][w].data.entries[k].color) \in 0..5

C3_Witness ==
  /\ pc[1] = "loop"
  /\ Len(style_table[1]) = 6
  /\ {entries[1][k].color : k \in 1..Len(entries[1])} = 0..5

(***************************************************************************)
(* C4: style_table has exactly the six literal entries in the literal      *)
(* order, in memory from its construction on and in the written document;  *)
(* no step of the entry-building loop changes it.                          *)
(***************************************************************************)
C4_Palette ==
  << [color |-> "#B5B7C9", size |-> "14px"], [color |-> "#8B91AD", size |-> "20px"],
     [color |-> "#4E516B", size |-> "24px"], [color |-> "#2E3347", size |-> "27px"],
     [color |-> "#925D78", size |-> "30px"], [color |-> "#F1C5B5", size |-> "34px"] >>

C4_StyleTableFixed ==
  /\ [](\A r \in DOMAIN pc :
          /\ pc[r] /= "start" => style_table[r] = C4_Palette /\ Len(style_table[r]) = 6
          /\ \A w \in 1..Len(sink[r]) : sink[r][w].data.style_table = C4_Palette)
  /\ [][\A r \in DOMAIN pc : pc[r] = "loop" => style_table'[r] = style_table[r]]_vars

C4_Witness ==
  /\ Written(1)
  /\ Len(Doc(1).style_table) = 6
  /\ Doc(1).style_table[6] = [color |-> "#F1C5B5", size |-> "34px"]
  /\ Len(entries[1]) > 0

(***************************************************************************)
(* C5: the sink receives exactly one write per run of DoJob: nothing is    *)
(* written before the loop over all 20,992 code points is over, the one    *)
(* write carries the serialized whole document (style_table and all the    *)
(* entries), and nothing is written after it.                              *)
(***************************************************************************)
C5_SingleWrite ==
  /\ [](\A r \in DOMAIN pc :
          /\ pc[r] \in {"start", "loop"} => sink[r] = <<>>
          /\ pc[r] \in {"writing", "returned", "raised", "flushing", "exited"} =>
               Len(sink[r]) = 1
          /\ Written(r) =>
               /\ Len(entries[r]) = 20992
               /\ Doc(r) = JsonDumps(Document(style_table[r], entries[r]))
               /\ Len(Doc(r).entries) = 20992
               /\ Len(Doc(r).style_table) = 6)
  /\ [][\A r \in DOMAIN pc :
          Written(r) => /\ Len(sink'[r]) = Len(sink[r])
                        /\ Doc(r)' = Doc(r)]_vars

C5_Witness ==
  /\ pc[1] = "exited"
  /\ Len(sink[1]) = 1
  /\ sink[1][1].result = "taken"
  /\ Len(Doc(1).entries) = 20992

(***************************************************************************)
(* C7: the only error of a run is a failed write: no exception is pending  *)
(* during construction or the loop; when the sink rejects the write, the   *)
(* failure is neither caught nor retried, it propagates and the process    *)
(* ends with a non-zero status; status 0 is a run whose whole text has     *)
(* reached the sink.                                                       *)
(***************************************************************************)
C7_OnlyWriteFails ==
  \A r \in DOMAIN pc :
    /\ pc[r] \in {"start", "loop", "writing"} => exc[r] = "none"
    /\ exc[r] /= "none" =>
         /\ exc[r] = "IOError"
         /\ Len(sink[r]) = 1
         /\ sink[r][1].result = "IOError"
         /\ pc[r] \in {"raised", "exited"}
    /\ (pc[r] = "exited" /\ delivered[r] = "truncated") =>
         status[r] /= 0 /\ exc[r] = "IOError"
    /\ (pc[r] = "exited" /\ status[r] = 0) => delivered[r] = "whole"

(***************************************************************************)
(* C9: every run terminates: the loop is over after a bounded number of    *)
(* iterations, the write is attempted exactly once, and the run ends, and  *)
(* stays, exited, either with status 0 after the full write (the whole     *)
(* text has reached the sink) or with the I/O failure (IOError, status 1). *)
(* f.write is a blocking call, so the claim is taken for the runs whose    *)
(* sink answers whenever it is waited for, the interpreter always running  *)
(* its next statement (SpecLive).                                          *)
(***************************************************************************)
C9_EveryRunEnds ==
  WF_vars(SinkAnswers) =>
    <>[](\A r \in DOMAIN pc :
           /\ pc[r] = "exited"
           /\ Len(sink[r]) = 1
           /\ \/ /\ status[r] = 0
                 /\ sink[r][1].result = "taken"
                 /\ delivered[r] = "whole"
              \/ /\ status[r] = 1
                 /\ sink[r][1].result = "IOError"
                 /\ exc[r] = "IOError")

(***************************************************************************)
(* C10: loop invariant of DoJob.  After k completed iterations entries has *)
(* exactly k entries, the j-th (0-based) with code point 0x4E00 + j and a  *)
(* color in [0, 5], and exactly k random draws have been made; a step only *)
(* appends to entries (what was appended stays as it is, in its place),    *)
(* one entry and one draw per iteration.                                   *)
(***************************************************************************)
C10_LoopInvariant ==
  /\ [](\A r \in DOMAIN pc :
          /\ Len(entries[r]) = iter[r] - 19968
          /\ draws[r] = Len(entries[r])
          /\ \A k \in 1..Len(entries[r]) :
               /\ entries[r][k].char = <<19968 + (k - 1)>>
               /\ entries[r][k].color \in 0..5)
  /\ [][\A r \in DOMAIN pc :
          /\ Len(entries'[r]) >= Len(entries[r])
          /\ SubSeq(entries'[r], 1, Len(entries[r])) = entries[r]
          /\ Len(entries'[r]) - Len(entries[r]) = iter'[r] - iter[r]
          /\ draws'[r] - draws[r] = iter'[r] - iter[r]]_vars

C10_Witness ==
  /\ pc[1] = "loop"
  /\ iter[1] = 19968 + 3
  /\ Len(entries[1]) = 3
  /\ draws[1] = 3
  /\ entries[1][3].char = <<19970>>

(***************************************************************************)
(* C6: two runs side by side.  When the random source gives both the same  *)
(* sequence (the same seed), the two written documents are identical,      *)
(* every `color` included; whatever the seeds, the two documents have the  *)
(* same style_table and the same `char` sequence, so that only `color`     *)
(* values can differ.                                                      *)
(***************************************************************************)
Chars(doc) == [k \in 1..Len(doc.entries) |-> doc.entries[k].char]

C6_RunsAgree ==
  (DOMAIN pc = {1, 2} /\ Written(1) /\ Written(2)) =>
    /\ seed[1] = seed[2] => Doc(1) = Doc(2)
    /\ Doc(1).style_table = Doc(2).style_table
    /\ Chars(Doc(1)) = Chars(Doc(2))
    /\ Len(Doc(1).entries) = Len(Doc(2).entries)

C6_Witness ==
  /\ DOMAIN pc = {1, 2}
  /\ Written(1) /\ Written(2)
  /\ seed[1] /= seed[2]
  /\ Colors(Doc(1)) /= Colors(Doc(2))
  /\ Chars(Doc(1)) = Chars(Doc(2))
====
